---- MODULE Spec2Model ----
(***************************************************************************)
(* ghprmerge: the Run Orchestrator (merger.Run, merger.RunWithActions),    *)
(* the Readiness Evaluator (evaluatePullRequest, processPullRequest), the  *)
(* repository and pull request filters of discovery, and main.run with its *)
(* configuration check and confirm flow, modelled as a state machine over  *)
(* the gh.Client collaborator interface.                                   *)
(***************************************************************************)
EXTENDS Integers, Sequences, FiniteSets, TLC

\* ---------------------------------------------------------------- bounds
\* Repositories returned by one ListRepositories call.
MaxRepos == 2
\* Candidates listed over a whole run (all repositories together) when
\* listings are drawn call by call; length of a listing settled in advance.
MaxPRs == 2
\* Largest BehindBy a comparison reports.
MaxBehind == 1
\* Largest --repo-limit tried (0 = unlimited).
MaxRepoLimit == 1

\* ------------------------------------------------------- strings as data
\* Branch names and the source-branch pattern are sequences of tokens, so
\* that strings.HasPrefix and strings.Contains are computed, not assumed.
DependabotPrefix == <<"dependabot/">>

HasPrefix(s, p) ==
    /\ Len(p) <= Len(s)
    /\ SubSeq(s, 1, Len(p)) = p

Contains(s, p) ==
    \E k \in 0..(Len(s) - Len(p)) : SubSeq(s, k + 1, k + Len(p)) = p

IsDependabotBranch(branchName) == HasPrefix(branchName, DependabotPrefix)

MatchesBranchPattern(branchName, pattern) == Contains(branchName, pattern)

\* Head branches of listed pull requests: a Dependabot branch, a branch that
\* contains the pattern without starting with it, and an unrelated branch.
HeadBranches ==
    { <<"dependabot/", "npm">>, <<"fork-", "dependabot/", "npm">>, <<"feature">> }

\* ------------------------------------------------------------ output.Action
ActionWouldMerge        == "would merge"
ActionWouldRebase       == "would rebase"
ActionReadyMerge        == "ready to merge"
ActionMerged            == "merged"
ActionMergeFailed       == "merge failed"
ActionRebased           == "rebased"
ActionRebaseFailed      == "rebase failed"
ActionSkipConflict      == "skip: merge conflict"
ActionSkipChecksFailing == "skip: checks failing"
ActionSkipChecksPending == "skip: checks pending"
ActionSkipBranchBehind  == "skip: branch behind default"
ActionSkipAPIError      == "skip: API error"

SkipActions ==
    { ActionSkipConflict, ActionSkipChecksFailing, ActionSkipChecksPending,
      ActionSkipBranchBehind, ActionSkipAPIError }

\* ------------------------------------------------------- output.SkipReason
ReasonNone          == ""
ReasonConflict      == "merge conflict"
ReasonChecksFailing == "checks failing"
ReasonChecksPending == "checks pending"
ReasonBranchBehind  == "branch behind default"
ReasonAPIError      == "API error"

\* ---------------------------------------------------- collaborator values
\* gh.CheckStatus: the three flags; Details is free text the merger copies.
\* The type admits every combination of the flags.
AllCheckStatuses == [AllPassing : BOOLEAN, Pending : BOOLEAN, NoChecks : BOOLEAN]

\* The four values RealClient.GetCheckStatus builds: no checks, pending,
\* failing, all passing.
CheckStatuses ==
    { [AllPassing |-> FALSE, Pending |-> FALSE, NoChecks |-> TRUE],
      [AllPassing |-> FALSE, Pending |-> TRUE,  NoChecks |-> FALSE],
      [AllPassing |-> FALSE, Pending |-> FALSE, NoChecks |-> FALSE],
      [AllPassing |-> TRUE,  Pending |-> FALSE, NoChecks |-> FALSE] }

NoCheckStatus == [AllPassing |-> FALSE, Pending |-> FALSE, NoChecks |-> FALSE]

\* gh.BranchStatus as RealClient.GetBranchStatus builds it: UpToDate is
\* BehindBy = 0, HasConflict is independent of both.
BranchStatuses ==
    { [UpToDate |-> (b = 0), BehindBy |-> b, HasConflict |-> c] :
        b \in 0..MaxBehind, c \in BOOLEAN }

NoBranchStatus == [UpToDate |-> FALSE, BehindBy |-> 0, HasConflict |-> FALSE]

\* A reason string, kept as its parts: the fixed text, the checksState
\* qualifier, the behind count (-1 when the text has none) and whether the
\* collaborator's error text is appended.
MkReason(msg, checks, behind, err) ==
    [msg |-> msg, checks |-> checks, behind |-> behind, err |-> err]

NoBehind == 0 - 1

\* output.PullRequestResult
MkResult(pr, action, reason, skipReason) ==
    [Number |-> pr.Number, HeadBranch |-> pr.HeadBranch,
     Action |-> action, Reason |-> reason, SkipReason |-> skipReason]

\* One collaborator call as the client saw it.
MkCall(op, repo, pr, err, check, branch) ==
    [op |-> op, repo |-> repo, pr |-> pr, err |-> err,
     check |-> check, branch |-> branch]

CheckCall(repo, pr, err, cs) ==
    MkCall("GetCheckStatus", repo, pr.Number, err,
           IF err THEN NoCheckStatus ELSE cs, NoBranchStatus)

BranchCall(repo, pr, err, bs) ==
    MkCall("GetBranchStatus", repo, pr.Number, err,
           NoCheckStatus, IF err THEN NoBranchStatus ELSE bs)

MutCall(op, repo, pr, err) ==
    MkCall(op, repo, pr.Number, err, NoCheckStatus, NoBranchStatus)

MutatingOps == { "MergePullRequest", "UpdateBranch", "PostRebaseComment" }
ReadingOps  ==
    { "ListRepositories", "ListPullRequests", "GetCheckStatus", "GetBranchStatus" }

\* ------------------------------------------------------------ the evaluator
\* checksState as both evaluators set it (merger.go:322-325, 581-584).
checksStateOf(cs) ==
    IF cs.NoChecks THEN "no checks configured" ELSE "all checks passing"

\* evaluatePullRequest with the rebase-only exception applied to pending
\* checks only.
evaluatePullRequest_FailingBlocksRebase(cfg, repo, pr, csErr, cs, bsErr, bs) ==
    LET rebaseOnly  == cfg.Rebase /\ ~cfg.Merge
        checksState == checksStateOf(cs)
        c1 == << CheckCall(repo, pr, csErr, cs) >>
        c2 == c1 \o << BranchCall(repo, pr, bsErr, bs) >>
    IN  IF csErr THEN
            [result |-> MkResult(pr, ActionSkipAPIError,
                          MkReason("failed to get check status", "", NoBehind, TRUE),
                          ReasonAPIError),
             calls |-> c1]
        ELSE IF ~cs.NoChecks /\ cs.Pending /\ ~rebaseOnly THEN
            [result |-> MkResult(pr, ActionSkipChecksPending,
                          MkReason("checkStatus.Details", "", NoBehind, FALSE),
                          ReasonChecksPending),
             calls |-> c1]
        ELSE IF ~cs.NoChecks /\ ~cs.AllPassing THEN
            [result |-> MkResult(pr, ActionSkipChecksFailing,
                          MkReason("checkStatus.Details", "", NoBehind, FALSE),
                          ReasonChecksFailing),
             calls |-> c1]
        ELSE IF bsErr THEN
            [result |-> MkResult(pr, ActionSkipAPIError,
                          MkReason("failed to get branch status", "", NoBehind, TRUE),
                          ReasonAPIError),
             calls |-> c2]
        ELSE IF bs.HasConflict THEN
            [result |-> MkResult(pr, ActionSkipConflict,
                          MkReason("pull request has merge conflicts", "", NoBehind, FALSE),
                          ReasonConflict),
             calls |-> c2]
        ELSE IF ~bs.UpToDate THEN
            IF cfg.SkipRebase /\ cfg.Merge THEN
                [result |-> MkResult(pr, ActionWouldMerge,
                              MkReason("would merge (branch is %d commits behind, rebase skipped)",
                                       checksState, bs.BehindBy, FALSE),
                              ReasonNone),
                 calls |-> c2]
            ELSE IF ~cfg.Rebase THEN
                [result |-> MkResult(pr, ActionSkipBranchBehind,
                              MkReason("branch is %d commits behind base (use --rebase to update)",
                                       "", bs.BehindBy, FALSE),
                              ReasonBranchBehind),
                 calls |-> c2]
            ELSE IF IsDependabotBranch(pr.HeadBranch) THEN
                [result |-> MkResult(pr, ActionWouldRebase,
                              MkReason("would post @dependabot rebase comment (%d commits behind)",
                                       "", bs.BehindBy, FALSE),
                              ReasonNone),
                 calls |-> c2]
            ELSE
                [result |-> MkResult(pr, ActionWouldRebase,
                              MkReason("would update branch via API (%d commits behind)",
                                       "", bs.BehindBy, FALSE),
                              ReasonNone),
                 calls |-> c2]
        ELSE IF cfg.Merge THEN
            [result |-> MkResult(pr, ActionWouldMerge,
                          MkReason("branch up to date", checksState, NoBehind, FALSE),
                          ReasonNone),
             calls |-> c2]
        ELSE
            [result |-> MkResult(pr, ActionReadyMerge,
                          MkReason("branch up to date (use --merge to merge)",
                                   checksState, NoBehind, FALSE),
                          ReasonNone),
             calls |-> c2]

\* evaluatePullRequest with the conflict test skipped when skip-rebase is in
\* effect with merge.
evaluatePullRequest_SkipRebaseBeforeConflict(cfg, repo, pr, csErr, cs, bsErr, bs) ==
    LET rebaseOnly  == cfg.Rebase /\ ~cfg.Merge
        checksState == checksStateOf(cs)
        c1 == << CheckCall(repo, pr, csErr, cs) >>
        c2 == c1 \o << BranchCall(repo, pr, bsErr, bs) >>
    IN  IF csErr THEN
            [result |-> MkResult(pr, ActionSkipAPIError,
                          MkReason("failed to get check status", "", NoBehind, TRUE),
                          ReasonAPIError),
             calls |-> c1]
        ELSE IF ~cs.NoChecks /\ cs.Pending /\ ~rebaseOnly THEN
            [result |-> MkResult(pr, ActionSkipChecksPending,
                          MkReason("checkStatus.Details", "", NoBehind, FALSE),
                          ReasonChecksPending),
             calls |-> c1]
        ELSE IF ~cs.NoChecks /\ ~cs.AllPassing /\ ~rebaseOnly THEN
            [result |-> MkResult(pr, ActionSkipChecksFailing,
                          MkReason("checkStatus.Details", "", NoBehind, FALSE),
                          ReasonChecksFailing),
             calls |-> c1]
        ELSE IF bsErr THEN
            [result |-> MkResult(pr, ActionSkipAPIError,
                          MkReason("failed to get branch status", "", NoBehind, TRUE),
                          ReasonAPIError),
             calls |-> c2]
        ELSE IF bs.HasConflict /\ ~(cfg.SkipRebase /\ cfg.Merge) THEN
            [result |-> MkResult(pr, ActionSkipConflict,
                          MkReason("pull request has merge conflicts", "", NoBehind, FALSE),
                          ReasonConflict),
             calls |-> c2]
        ELSE IF ~bs.UpToDate THEN
            IF cfg.SkipRebase /\ cfg.Merge THEN
                [result |-> MkResult(pr, ActionWouldMerge,
                              MkReason("would merge (branch is %d commits behind, rebase skipped)",
                                       checksState, bs.BehindBy, FALSE),
                              ReasonNone),
                 calls |-> c2]
            ELSE IF ~cfg.Rebase THEN
                [result |-> MkResult(pr, ActionSkipBranchBehind,
                              MkReason("branch is %d commits behind base (use --rebase to update)",
                                       "", bs.BehindBy, FALSE),
                              ReasonBranchBehind),
                 calls |-> c2]
            ELSE IF IsDependabotBranch(pr.HeadBranch) THEN
                [result |-> MkResult(pr, ActionWouldRebase,
                              MkReason("would post @dependabot rebase comment (%d commits behind)",
                                       "", bs.BehindBy, FALSE),
                              ReasonNone),
                 calls |-> c2]
            ELSE
                [result |-> MkResult(pr, ActionWouldRebase,
                              MkReason("would update branch via API (%d commits behind)",
                                       "", bs.BehindBy, FALSE),
                              ReasonNone),
                 calls |-> c2]
        ELSE IF cfg.Merge THEN
            [result |-> MkResult(pr, ActionWouldMerge,
                          MkReason("branch up to date", checksState, NoBehind, FALSE),
                          ReasonNone),
             calls |-> c2]
        ELSE
            [result |-> MkResult(pr, ActionReadyMerge,
                          MkReason("branch up to date (use --merge to merge)",
                                   checksState, NoBehind, FALSE),
                          ReasonNone),
             calls |-> c2]

\* evaluatePullRequest letting rebase-only mode tolerate a failed check-status
\* retrieval as it tolerates failing checks.
evaluatePullRequest_RebaseOnlyToleratesCheckError(cfg, repo, pr, csErr, cs, bsErr, bs) ==
    LET rebaseOnly  == cfg.Rebase /\ ~cfg.Merge
        checksState == checksStateOf(cs)
        c1 == << CheckCall(repo, pr, csErr, cs) >>
        c2 == c1 \o << BranchCall(repo, pr, bsErr, bs) >>
    IN  IF csErr /\ ~rebaseOnly THEN
            [result |-> MkResult(pr, ActionSkipAPIError,
                          MkReason("failed to get check status", "", NoBehind, TRUE),
                          ReasonAPIError),
             calls |-> c1]
        ELSE IF ~cs.NoChecks /\ cs.Pending /\ ~rebaseOnly THEN
            [result |-> MkResult(pr, ActionSkipChecksPending,
                          MkReason("checkStatus.Details", "", NoBehind, FALSE),
                          ReasonChecksPending),
             calls |-> c1]
        ELSE IF ~cs.NoChecks /\ ~cs.AllPassing /\ ~rebaseOnly THEN
            [result |-> MkResult(pr, ActionSkipChecksFailing,
                          MkReason("checkStatus.Details", "", NoBehind, FALSE),
                          ReasonChecksFailing),
             calls |-> c1]
        ELSE IF bsErr THEN
            [result |-> MkResult(pr, ActionSkipAPIError,
                          MkReason("failed to get branch status", "", NoBehind, TRUE),
                          ReasonAPIError),
             calls |-> c2]
        ELSE IF bs.HasConflict THEN
            [result |-> MkResult(pr, ActionSkipConflict,
                          MkReason("pull request has merge conflicts", "", NoBehind, FALSE),
                          ReasonConflict),
             calls |-> c2]
        ELSE IF ~bs.UpToDate THEN
            IF cfg.SkipRebase /\ cfg.Merge THEN
                [result |-> MkResult(pr, ActionWouldMerge,
                              MkReason("would merge (branch is %d commits behind, rebase skipped)",
                                       checksState, bs.BehindBy, FALSE),
                              ReasonNone),
                 calls |-> c2]
            ELSE IF ~cfg.Rebase THEN
                [result |-> MkResult(pr, ActionSkipBranchBehind,
                              MkReason("branch is %d commits behind base (use --rebase to update)",
                                       "", bs.BehindBy, FALSE),
                              ReasonBranchBehind),
                 calls |-> c2]
            ELSE IF IsDependabotBranch(pr.HeadBranch) THEN
                [result |-> MkResult(pr, ActionWouldRebase,
                              MkReason("would post @dependabot rebase comment (%d commits behind)",
                                       "", bs.BehindBy, FALSE),
                              ReasonNone),
                 calls |-> c2]
            ELSE
                [result |-> MkResult(pr, ActionWouldRebase,
                              MkReason("would update branch via API (%d commits behind)",
                                       "", bs.BehindBy, FALSE),
                              ReasonNone),
                 calls |-> c2]
        ELSE IF cfg.Merge THEN
            [result |-> MkResult(pr, ActionWouldMerge,
                          MkReason("branch up to date", checksState, NoBehind, FALSE),
                          ReasonNone),
             calls |-> c2]
        ELSE
            [result |-> MkResult(pr, ActionReadyMerge,
                          MkReason("branch up to date (use --merge to merge)",
                                   checksState, NoBehind, FALSE),
                          ReasonNone),
             calls |-> c2]

\* evaluatePullRequest: what would be done for one candidate, with the
\* collaborator calls it makes.  csErr/cs and bsErr/bs are the answers of
\* GetCheckStatus and GetBranchStatus; the second is only asked for when the
\* check-status gate lets the PR through.
evaluatePullRequest(cfg, repo, pr, csErr, cs, bsErr, bs) ==
    LET rebaseOnly  == cfg.Rebase /\ ~cfg.Merge
        checksState == checksStateOf(cs)
        c1 == << CheckCall(repo, pr, csErr, cs) >>
        c2 == c1 \o << BranchCall(repo, pr, bsErr, bs) >>
    IN  IF csErr THEN
            [result |-> MkResult(pr, ActionSkipAPIError,
                          MkReason("failed to get check status", "", NoBehind, TRUE),
                          ReasonAPIError),
             calls |-> c1]
        ELSE IF ~cs.NoChecks /\ cs.Pending /\ ~rebaseOnly THEN
            [result |-> MkResult(pr, ActionSkipChecksPending,
                          MkReason("checkStatus.Details", "", NoBehind, FALSE),
                          ReasonChecksPending),
             calls |-> c1]
        ELSE IF ~cs.NoChecks /\ ~cs.AllPassing /\ ~rebaseOnly THEN
            [result |-> MkResult(pr, ActionSkipChecksFailing,
                          MkReason("checkStatus.Details", "", NoBehind, FALSE),
                          ReasonChecksFailing),
             calls |-> c1]
        ELSE IF bsErr THEN
            [result |-> MkResult(pr, ActionSkipAPIError,
                          MkReason("failed to get branch status", "", NoBehind, TRUE),
                          ReasonAPIError),
             calls |-> c2]
        ELSE IF bs.HasConflict THEN
            [result |-> MkResult(pr, ActionSkipConflict,
                          MkReason("pull request has merge conflicts", "", NoBehind, FALSE),
                          ReasonConflict),
             calls |-> c2]
        ELSE IF ~bs.UpToDate THEN
            IF cfg.SkipRebase /\ cfg.Merge THEN
                [result |-> MkResult(pr, ActionWouldMerge,
                              MkReason("would merge (branch is %d commits behind, rebase skipped)",
                                       checksState, bs.BehindBy, FALSE),
                              ReasonNone),
                 calls |-> c2]
            ELSE IF ~cfg.Rebase THEN
                [result |-> MkResult(pr, ActionSkipBranchBehind,
                              MkReason("branch is %d commits behind base (use --rebase to update)",
                                       "", bs.BehindBy, FALSE),
                              ReasonBranchBehind),
                 calls |-> c2]
            ELSE IF IsDependabotBranch(pr.HeadBranch) THEN
                [result |-> MkResult(pr, ActionWouldRebase,
                              MkReason("would post @dependabot rebase comment (%d commits behind)",
                                       "", bs.BehindBy, FALSE),
                              ReasonNone),
                 calls |-> c2]
            ELSE
                [result |-> MkResult(pr, ActionWouldRebase,
                              MkReason("would update branch via API (%d commits behind)",
                                       "", bs.BehindBy, FALSE),
                              ReasonNone),
                 calls |-> c2]
        ELSE IF cfg.Merge THEN
            [result |-> MkResult(pr, ActionWouldMerge,
                          MkReason("branch up to date", checksState, NoBehind, FALSE),
                          ReasonNone),
             calls |-> c2]
        ELSE
            [result |-> MkResult(pr, ActionReadyMerge,
                          MkReason("branch up to date (use --merge to merge)",
                                   checksState, NoBehind, FALSE),
                          ReasonNone),
             calls |-> c2]

\* handleOutdatedBranch testing the rebase flag where it should test the merge
\* flag.
handleOutdatedBranch_SkipRebaseNeedsRebase(cfg, repo, pr, bs, checksState, mErr) ==
    IF cfg.SkipRebase /\ cfg.Rebase THEN
        IF mErr THEN
            [result |-> MkResult(pr, ActionMergeFailed,
                          MkReason("merge failed", "", NoBehind, TRUE), ReasonNone),
             calls |-> << MutCall("MergePullRequest", repo, pr, TRUE) >>]
        ELSE
            [result |-> MkResult(pr, ActionMerged,
                          MkReason("successfully merged (branch was %d commits behind, rebase skipped)",
                                   checksState, bs.BehindBy, FALSE),
                          ReasonNone),
             calls |-> << MutCall("MergePullRequest", repo, pr, FALSE) >>]
    ELSE IF ~cfg.Rebase THEN
        [result |-> MkResult(pr, ActionSkipBranchBehind,
                      MkReason("branch is %d commits behind base (use --rebase to update)",
                               "", bs.BehindBy, FALSE),
                      ReasonBranchBehind),
         calls |-> << >>]
    ELSE IF IsDependabotBranch(pr.HeadBranch) THEN
        IF mErr THEN
            [result |-> MkResult(pr, ActionRebaseFailed,
                          MkReason("failed to post rebase comment", "", NoBehind, TRUE),
                          ReasonNone),
             calls |-> << MutCall("PostRebaseComment", repo, pr, TRUE) >>]
        ELSE
            [result |-> MkResult(pr, ActionRebased,
                          MkReason("posted @dependabot rebase comment (%d commits behind)",
                                   "", bs.BehindBy, FALSE),
                          ReasonNone),
             calls |-> << MutCall("PostRebaseComment", repo, pr, FALSE) >>]
    ELSE
        IF mErr THEN
            [result |-> MkResult(pr, ActionRebaseFailed,
                          MkReason("failed to update branch", "", NoBehind, TRUE),
                          ReasonNone),
             calls |-> << MutCall("UpdateBranch", repo, pr, TRUE) >>]
        ELSE
            [result |-> MkResult(pr, ActionRebased,
                          MkReason("branch update requested via API (%d commits behind)",
                                   "", bs.BehindBy, FALSE),
                          ReasonNone),
             calls |-> << MutCall("UpdateBranch", repo, pr, FALSE) >>]

\* handleOutdatedBranch reporting one commit fewer than the branch is behind.
handleOutdatedBranch_BehindCountOffByOne(cfg, repo, pr, bs, checksState, mErr) ==
    IF cfg.SkipRebase /\ cfg.Merge THEN
        IF mErr THEN
            [result |-> MkResult(pr, ActionMergeFailed,
                          MkReason("merge failed", "", NoBehind, TRUE), ReasonNone),
             calls |-> << MutCall("MergePullRequest", repo, pr, TRUE) >>]
        ELSE
            [result |-> MkResult(pr, ActionMerged,
                          MkReason("successfully merged (branch was %d commits behind, rebase skipped)",
                                   checksState, bs.BehindBy, FALSE),
                          ReasonNone),
             calls |-> << MutCall("MergePullRequest", repo, pr, FALSE) >>]
    ELSE IF ~cfg.Rebase THEN
        [result |-> MkResult(pr, ActionSkipBranchBehind,
                      MkReason("branch is %d commits behind base (use --rebase to update)",
                               "", bs.BehindBy - 1, FALSE),
                      ReasonBranchBehind),
         calls |-> << >>]
    ELSE IF IsDependabotBranch(pr.HeadBranch) THEN
        IF mErr THEN
            [result |-> MkResult(pr, ActionRebaseFailed,
                          MkReason("failed to post rebase comment", "", NoBehind, TRUE),
                          ReasonNone),
             calls |-> << MutCall("PostRebaseComment", repo, pr, TRUE) >>]
        ELSE
            [result |-> MkResult(pr, ActionRebased,
                          MkReason("posted @dependabot rebase comment (%d commits behind)",
                                   "", bs.BehindBy, FALSE),
                          ReasonNone),
             calls |-> << MutCall("PostRebaseComment", repo, pr, FALSE) >>]
    ELSE
        IF mErr THEN
            [result |-> MkResult(pr, ActionRebaseFailed,
                          MkReason("failed to update branch", "", NoBehind, TRUE),
                          ReasonNone),
             calls |-> << MutCall("UpdateBranch", repo, pr, TRUE) >>]
        ELSE
            [result |-> MkResult(pr, ActionRebased,
                          MkReason("branch update requested via API (%d commits behind)",
                                   "", bs.BehindBy, FALSE),
                          ReasonNone),
             calls |-> << MutCall("UpdateBranch", repo, pr, FALSE) >>]

\* handleOutdatedBranch going on to merge, under --merge, the branch it has
\* just asked to be rebased.
handleOutdatedBranch_RebasesThenMerges(cfg, repo, pr, bs, checksState, mErr) ==
    IF cfg.SkipRebase /\ cfg.Merge THEN
        IF mErr THEN
            [result |-> MkResult(pr, ActionMergeFailed,
                          MkReason("merge failed", "", NoBehind, TRUE), ReasonNone),
             calls |-> << MutCall("MergePullRequest", repo, pr, TRUE) >>]
        ELSE
            [result |-> MkResult(pr, ActionMerged,
                          MkReason("successfully merged (branch was %d commits behind, rebase skipped)",
                                   checksState, bs.BehindBy, FALSE),
                          ReasonNone),
             calls |-> << MutCall("MergePullRequest", repo, pr, FALSE) >>]
    ELSE IF ~cfg.Rebase THEN
        [result |-> MkResult(pr, ActionSkipBranchBehind,
                      MkReason("branch is %d commits behind base (use --rebase to update)",
                               "", bs.BehindBy, FALSE),
                      ReasonBranchBehind),
         calls |-> << >>]
    ELSE IF IsDependabotBranch(pr.HeadBranch) THEN
        IF mErr THEN
            [result |-> MkResult(pr, ActionRebaseFailed,
                          MkReason("failed to post rebase comment", "", NoBehind, TRUE),
                          ReasonNone),
             calls |-> << MutCall("PostRebaseComment", repo, pr, TRUE) >>]
        ELSE
            [result |-> MkResult(pr, ActionRebased,
                          MkReason("posted @dependabot rebase comment (%d commits behind)",
                                   "", bs.BehindBy, FALSE),
                          ReasonNone),
             calls |-> << MutCall("PostRebaseComment", repo, pr, FALSE) >>
                         \o (IF cfg.Merge THEN << MutCall("MergePullRequest", repo, pr, FALSE) >>
                             ELSE << >>)]
    ELSE
        IF mErr THEN
            [result |-> MkResult(pr, ActionRebaseFailed,
                          MkReason("failed to update branch", "", NoBehind, TRUE),
                          ReasonNone),
             calls |-> << MutCall("UpdateBranch", repo, pr, TRUE) >>]
        ELSE
            [result |-> MkResult(pr, ActionRebased,
                          MkReason("branch update requested via API (%d commits behind)",
                                   "", bs.BehindBy, FALSE),
                          ReasonNone),
             calls |-> << MutCall("UpdateBranch", repo, pr, FALSE) >>
                         \o (IF cfg.Merge THEN << MutCall("MergePullRequest", repo, pr, FALSE) >>
                             ELSE << >>)]

\* handleOutdatedBranch: the branch is behind its base.  mErr is the answer
\* of the one mutating call it may make.
handleOutdatedBranch(cfg, repo, pr, bs, checksState, mErr) ==
    IF cfg.SkipRebase /\ cfg.Merge THEN
        IF mErr THEN
            [result |-> MkResult(pr, ActionMergeFailed,
                          MkReason("merge failed", "", NoBehind, TRUE), ReasonNone),
             calls |-> << MutCall("MergePullRequest", repo, pr, TRUE) >>]
        ELSE
            [result |-> MkResult(pr, ActionMerged,
                          MkReason("successfully merged (branch was %d commits behind, rebase skipped)",
                                   checksState, bs.BehindBy, FALSE),
                          ReasonNone),
             calls |-> << MutCall("MergePullRequest", repo, pr, FALSE) >>]
    ELSE IF ~cfg.Rebase THEN
        [result |-> MkResult(pr, ActionSkipBranchBehind,
                      MkReason("branch is %d commits behind base (use --rebase to update)",
                               "", bs.BehindBy, FALSE),
                      ReasonBranchBehind),
         calls |-> << >>]
    ELSE IF IsDependabotBranch(pr.HeadBranch) THEN
        IF mErr THEN
            [result |-> MkResult(pr, ActionRebaseFailed,
                          MkReason("failed to post rebase comment", "", NoBehind, TRUE),
                          ReasonNone),
             calls |-> << MutCall("PostRebaseComment", repo, pr, TRUE) >>]
        ELSE
            [result |-> MkResult(pr, ActionRebased,
                          MkReason("posted @dependabot rebase comment (%d commits behind)",
                                   "", bs.BehindBy, FALSE),
                          ReasonNone),
             calls |-> << MutCall("PostRebaseComment", repo, pr, FALSE) >>]
    ELSE
        IF mErr THEN
            [result |-> MkResult(pr, ActionRebaseFailed,
                          MkReason("failed to update branch", "", NoBehind, TRUE),
                          ReasonNone),
             calls |-> << MutCall("UpdateBranch", repo, pr, TRUE) >>]
        ELSE
            [result |-> MkResult(pr, ActionRebased,
                          MkReason("branch update requested via API (%d commits behind)",
                                   "", bs.BehindBy, FALSE),
                          ReasonNone),
             calls |-> << MutCall("UpdateBranch", repo, pr, FALSE) >>]

\* handleMergeReady merging as soon as either action flag is set.
handleMergeReady_IgnoresMergeFlag(cfg, repo, pr, checksState, mErr) ==
    IF ~cfg.Merge /\ ~cfg.Rebase THEN
        [result |-> MkResult(pr, ActionReadyMerge,
                      MkReason("branch up to date (use --merge to merge)",
                               checksState, NoBehind, FALSE),
                      ReasonNone),
         calls |-> << >>]
    ELSE IF mErr THEN
        [result |-> MkResult(pr, ActionMergeFailed,
                      MkReason("merge failed", "", NoBehind, TRUE), ReasonNone),
         calls |-> << MutCall("MergePullRequest", repo, pr, TRUE) >>]
    ELSE
        [result |-> MkResult(pr, ActionMerged,
                      MkReason("successfully merged", checksState, NoBehind, FALSE),
                      ReasonNone),
         calls |-> << MutCall("MergePullRequest", repo, pr, FALSE) >>]

\* handleMergeReady reporting Merged although the merge call failed.
handleMergeReady_SwallowsError(cfg, repo, pr, checksState, mErr) ==
    IF ~cfg.Merge THEN
        [result |-> MkResult(pr, ActionReadyMerge,
                      MkReason("branch up to date (use --merge to merge)",
                               checksState, NoBehind, FALSE),
                      ReasonNone),
         calls |-> << >>]
    ELSE IF mErr THEN
        [result |-> MkResult(pr, ActionMerged,
                      MkReason("merge failed", "", NoBehind, TRUE), ReasonNone),
         calls |-> << MutCall("MergePullRequest", repo, pr, TRUE) >>]
    ELSE
        [result |-> MkResult(pr, ActionMerged,
                      MkReason("successfully merged", checksState, NoBehind, FALSE),
                      ReasonNone),
         calls |-> << MutCall("MergePullRequest", repo, pr, FALSE) >>]

\* handleMergeReady: every gate passed and the branch is up to date.
handleMergeReady(cfg, repo, pr, checksState, mErr) ==
    IF ~cfg.Merge THEN
        [result |-> MkResult(pr, ActionReadyMerge,
                      MkReason("branch up to date (use --merge to merge)",
                               checksState, NoBehind, FALSE),
                      ReasonNone),
         calls |-> << >>]
    ELSE IF mErr THEN
        [result |-> MkResult(pr, ActionMergeFailed,
                      MkReason("merge failed", "", NoBehind, TRUE), ReasonNone),
         calls |-> << MutCall("MergePullRequest", repo, pr, TRUE) >>]
    ELSE
        [result |-> MkResult(pr, ActionMerged,
                      MkReason("successfully merged", checksState, NoBehind, FALSE),
                      ReasonNone),
         calls |-> << MutCall("MergePullRequest", repo, pr, FALSE) >>]

\* processPullRequest with the rebase-only exception granted whenever rebase
\* is set, merge or not.
processPullRequest_RebaseOnlyIgnoresMerge(cfg, repo, pr, csErr, cs, bsErr, bs, mErr) ==
    LET rebaseOnly  == cfg.Rebase
        checksState == checksStateOf(cs)
        c1 == << CheckCall(repo, pr, csErr, cs) >>
        c2 == c1 \o << BranchCall(repo, pr, bsErr, bs) >>
    IN  IF csErr THEN
            [result |-> MkResult(pr, ActionSkipAPIError,
                          MkReason("failed to get check status", "", NoBehind, TRUE),
                          ReasonAPIError),
             calls |-> c1]
        ELSE IF ~cs.NoChecks /\ cs.Pending /\ ~rebaseOnly THEN
            [result |-> MkResult(pr, ActionSkipChecksPending,
                          MkReason("checkStatus.Details", "", NoBehind, FALSE),
                          ReasonChecksPending),
             calls |-> c1]
        ELSE IF ~cs.NoChecks /\ ~cs.AllPassing /\ ~rebaseOnly THEN
            [result |-> MkResult(pr, ActionSkipChecksFailing,
                          MkReason("checkStatus.Details", "", NoBehind, FALSE),
                          ReasonChecksFailing),
             calls |-> c1]
        ELSE IF bsErr THEN
            [result |-> MkResult(pr, ActionSkipAPIError,
                          MkReason("failed to get branch status", "", NoBehind, TRUE),
                          ReasonAPIError),
             calls |-> c2]
        ELSE IF bs.HasConflict THEN
            [result |-> MkResult(pr, ActionSkipConflict,
                          MkReason("pull request has merge conflicts", "", NoBehind, FALSE),
                          ReasonConflict),
             calls |-> c2]
        ELSE IF ~bs.UpToDate THEN
            LET h == handleOutdatedBranch(cfg, repo, pr, bs, checksState, mErr)
            IN  [result |-> h.result, calls |-> c2 \o h.calls]
        ELSE
            LET h == handleMergeReady(cfg, repo, pr, checksState, mErr)
            IN  [result |-> h.result, calls |-> c2 \o h.calls]

\* processPullRequest with the conflict gate lifted under skip-rebase.
processPullRequest_SkipRebaseBypassesConflict(cfg, repo, pr, csErr, cs, bsErr, bs, mErr) ==
    LET rebaseOnly  == cfg.Rebase /\ ~cfg.Merge
        checksState == checksStateOf(cs)
        c1 == << CheckCall(repo, pr, csErr, cs) >>
        c2 == c1 \o << BranchCall(repo, pr, bsErr, bs) >>
    IN  IF csErr THEN
            [result |-> MkResult(pr, ActionSkipAPIError,
                          MkReason("failed to get check status", "", NoBehind, TRUE),
                          ReasonAPIError),
             calls |-> c1]
        ELSE IF ~cs.NoChecks /\ cs.Pending /\ ~rebaseOnly THEN
            [result |-> MkResult(pr, ActionSkipChecksPending,
                          MkReason("checkStatus.Details", "", NoBehind, FALSE),
                          ReasonChecksPending),
             calls |-> c1]
        ELSE IF ~cs.NoChecks /\ ~cs.AllPassing /\ ~rebaseOnly THEN
            [result |-> MkResult(pr, ActionSkipChecksFailing,
                          MkReason("checkStatus.Details", "", NoBehind, FALSE),
                          ReasonChecksFailing),
             calls |-> c1]
        ELSE IF bsErr THEN
            [result |-> MkResult(pr, ActionSkipAPIError,
                          MkReason("failed to get branch status", "", NoBehind, TRUE),
                          ReasonAPIError),
             calls |-> c2]
        ELSE IF bs.HasConflict /\ ~cfg.SkipRebase THEN
            [result |-> MkResult(pr, ActionSkipConflict,
                          MkReason("pull request has merge conflicts", "", NoBehind, FALSE),
                          ReasonConflict),
             calls |-> c2]
        ELSE IF ~bs.UpToDate THEN
            LET h == handleOutdatedBranch(cfg, repo, pr, bs, checksState, mErr)
            IN  [result |-> h.result, calls |-> c2 \o h.calls]
        ELSE
            LET h == handleMergeReady(cfg, repo, pr, checksState, mErr)
            IN  [result |-> h.result, calls |-> c2 \o h.calls]

\* processPullRequest testing Pending before NoChecks.
processPullRequest_PendingBeforeNoChecks(cfg, repo, pr, csErr, cs, bsErr, bs, mErr) ==
    LET rebaseOnly  == cfg.Rebase /\ ~cfg.Merge
        checksState == checksStateOf(cs)
        c1 == << CheckCall(repo, pr, csErr, cs) >>
        c2 == c1 \o << BranchCall(repo, pr, bsErr, bs) >>
    IN  IF csErr THEN
            [result |-> MkResult(pr, ActionSkipAPIError,
                          MkReason("failed to get check status", "", NoBehind, TRUE),
                          ReasonAPIError),
             calls |-> c1]
        ELSE IF cs.Pending /\ ~rebaseOnly THEN
            [result |-> MkResult(pr, ActionSkipChecksPending,
                          MkReason("checkStatus.Details", "", NoBehind, FALSE),
                          ReasonChecksPending),
             calls |-> c1]
        ELSE IF ~cs.NoChecks /\ ~cs.AllPassing /\ ~rebaseOnly THEN
            [result |-> MkResult(pr, ActionSkipChecksFailing,
                          MkReason("checkStatus.Details", "", NoBehind, FALSE),
                          ReasonChecksFailing),
             calls |-> c1]
        ELSE IF bsErr THEN
            [result |-> MkResult(pr, ActionSkipAPIError,
                          MkReason("failed to get branch status", "", NoBehind, TRUE),
                          ReasonAPIError),
             calls |-> c2]
        ELSE IF bs.HasConflict THEN
            [result |-> MkResult(pr, ActionSkipConflict,
                          MkReason("pull request has merge conflicts", "", NoBehind, FALSE),
                          ReasonConflict),
             calls |-> c2]
        ELSE IF ~bs.UpToDate THEN
            LET h == handleOutdatedBranch(cfg, repo, pr, bs, checksState, mErr)
            IN  [result |-> h.result, calls |-> c2 \o h.calls]
        ELSE
            LET h == handleMergeReady(cfg, repo, pr, checksState, mErr)
            IN  [result |-> h.result, calls |-> c2 \o h.calls]

\* processPullRequest without the rebase-only exception for pending checks.
processPullRequest_PendingBlocksRebase(cfg, repo, pr, csErr, cs, bsErr, bs, mErr) ==
    LET rebaseOnly  == cfg.Rebase /\ ~cfg.Merge
        checksState == checksStateOf(cs)
        c1 == << CheckCall(repo, pr, csErr, cs) >>
        c2 == c1 \o << BranchCall(repo, pr, bsErr, bs) >>
    IN  IF csErr THEN
            [result |-> MkResult(pr, ActionSkipAPIError,
                          MkReason("failed to get check status", "", NoBehind, TRUE),
                          ReasonAPIError),
             calls |-> c1]
        ELSE IF ~cs.NoChecks /\ cs.Pending THEN
            [result |-> MkResult(pr, ActionSkipChecksPending,
                          MkReason("checkStatus.Details", "", NoBehind, FALSE),
                          ReasonChecksPending),
             calls |-> c1]
        ELSE IF ~cs.NoChecks /\ ~cs.AllPassing /\ ~rebaseOnly THEN
            [result |-> MkResult(pr, ActionSkipChecksFailing,
                          MkReason("checkStatus.Details", "", NoBehind, FALSE),
                          ReasonChecksFailing),
             calls |-> c1]
        ELSE IF bsErr THEN
            [result |-> MkResult(pr, ActionSkipAPIError,
                          MkReason("failed to get branch status", "", NoBehind, TRUE),
                          ReasonAPIError),
             calls |-> c2]
        ELSE IF bs.HasConflict THEN
            [result |-> MkResult(pr, ActionSkipConflict,
                          MkReason("pull request has merge conflicts", "", NoBehind, FALSE),
                          ReasonConflict),
             calls |-> c2]
        ELSE IF ~bs.UpToDate THEN
            LET h == handleOutdatedBranch(cfg, repo, pr, bs, checksState, mErr)
            IN  [result |-> h.result, calls |-> c2 \o h.calls]
        ELSE
            LET h == handleMergeReady(cfg, repo, pr, checksState, mErr)
            IN  [result |-> h.result, calls |-> c2 \o h.calls]

\* processPullRequest: the single-phase path, evaluation immediately
\* followed by the mutation.
processPullRequest(cfg, repo, pr, csErr, cs, bsErr, bs, mErr) ==
    LET rebaseOnly  == cfg.Rebase /\ ~cfg.Merge
        checksState == checksStateOf(cs)
        c1 == << CheckCall(repo, pr, csErr, cs) >>
        c2 == c1 \o << BranchCall(repo, pr, bsErr, bs) >>
    IN  IF csErr THEN
            [result |-> MkResult(pr, ActionSkipAPIError,
                          MkReason("failed to get check status", "", NoBehind, TRUE),
                          ReasonAPIError),
             calls |-> c1]
        ELSE IF ~cs.NoChecks /\ cs.Pending /\ ~rebaseOnly THEN
            [result |-> MkResult(pr, ActionSkipChecksPending,
                          MkReason("checkStatus.Details", "", NoBehind, FALSE),
                          ReasonChecksPending),
             calls |-> c1]
        ELSE IF ~cs.NoChecks /\ ~cs.AllPassing /\ ~rebaseOnly THEN
            [result |-> MkResult(pr, ActionSkipChecksFailing,
                          MkReason("checkStatus.Details", "", NoBehind, FALSE),
                          ReasonChecksFailing),
             calls |-> c1]
        ELSE IF bsErr THEN
            [result |-> MkResult(pr, ActionSkipAPIError,
                          MkReason("failed to get branch status", "", NoBehind, TRUE),
                          ReasonAPIError),
             calls |-> c2]
        ELSE IF bs.HasConflict THEN
            [result |-> MkResult(pr, ActionSkipConflict,
                          MkReason("pull request has merge conflicts", "", NoBehind, FALSE),
                          ReasonConflict),
             calls |-> c2]
        ELSE IF ~bs.UpToDate THEN
            LET h == handleOutdatedBranch(cfg, repo, pr, bs, checksState, mErr)
            IN  [result |-> h.result, calls |-> c2 \o h.calls]
        ELSE
            LET h == handleMergeReady(cfg, repo, pr, checksState, mErr)
            IN  [result |-> h.result, calls |-> c2 \o h.calls]

\* executeRebase choosing the comment for every branch that contains
\* "dependabot/", not only those that start with it.
executeRebase_ByPattern(repo, pr, mErr) ==
    IF MatchesBranchPattern(pr.HeadBranch, DependabotPrefix) THEN
        [result |-> [pr EXCEPT
                        !.Action = IF mErr THEN ActionRebaseFailed ELSE ActionRebased,
                        !.Reason = IF mErr
                                   THEN MkReason("failed to post rebase comment", "", NoBehind, TRUE)
                                   ELSE MkReason("posted @dependabot rebase comment", "", NoBehind, FALSE)],
         calls |-> << MutCall("PostRebaseComment", repo, pr, mErr) >>]
    ELSE
        [result |-> [pr EXCEPT
                        !.Action = IF mErr THEN ActionRebaseFailed ELSE ActionRebased,
                        !.Reason = IF mErr
                                   THEN MkReason("failed to update branch", "", NoBehind, TRUE)
                                   ELSE MkReason("branch update requested via API", "", NoBehind, FALSE)],
         calls |-> << MutCall("UpdateBranch", repo, pr, mErr) >>]

\* executeRebase / executeMerge: RunWithActions' executors for one planned
\* entry; they overwrite Action and Reason and leave the rest of the entry.
executeRebase(repo, pr, mErr) ==
    IF IsDependabotBranch(pr.HeadBranch) THEN
        [result |-> [pr EXCEPT
                        !.Action = IF mErr THEN ActionRebaseFailed ELSE ActionRebased,
                        !.Reason = IF mErr
                                   THEN MkReason("failed to post rebase comment", "", NoBehind, TRUE)
                                   ELSE MkReason("posted @dependabot rebase comment", "", NoBehind, FALSE)],
         calls |-> << MutCall("PostRebaseComment", repo, pr, mErr) >>]
    ELSE
        [result |-> [pr EXCEPT
                        !.Action = IF mErr THEN ActionRebaseFailed ELSE ActionRebased,
                        !.Reason = IF mErr
                                   THEN MkReason("failed to update branch", "", NoBehind, TRUE)
                                   ELSE MkReason("branch update requested via API", "", NoBehind, FALSE)],
         calls |-> << MutCall("UpdateBranch", repo, pr, mErr) >>]

\* executeMerge leaving the planned action in place when the merge fails.
executeMerge_KeepsPlanOnError(repo, pr, mErr) ==
    [result |-> [pr EXCEPT
                    !.Action = IF mErr THEN pr.Action ELSE ActionMerged,
                    !.Reason = IF mErr
                               THEN MkReason("merge failed", "", NoBehind, TRUE)
                               ELSE MkReason("successfully merged", "", NoBehind, FALSE)],
     calls |-> << MutCall("MergePullRequest", repo, pr, mErr) >>]


executeMerge(repo, pr, mErr) ==
    [result |-> [pr EXCEPT
                    !.Action = IF mErr THEN ActionMergeFailed ELSE ActionMerged,
                    !.Reason = IF mErr
                               THEN MkReason("merge failed", "", NoBehind, TRUE)
                               ELSE MkReason("successfully merged", "", NoBehind, FALSE)],
     calls |-> << MutCall("MergePullRequest", repo, pr, mErr) >>]


\* ---------------------------------------------------------------- summary
SkipReasons ==
    { ReasonConflict, ReasonChecksFailing, ReasonChecksPending,
      ReasonBranchBehind, ReasonAPIError }

\* A key the map does not hold reads as 0.
EmptyHistogram == [r \in SkipReasons |-> 0]

EmptySummary ==
    [ReposProcessed |-> 0, ReposSkipped |-> 0, CandidatesFound |-> 0,
     MergedSuccess |-> 0, MergeFailed |-> 0, RebasedSuccess |-> 0,
     RebaseFailed |-> 0, WouldMerge |-> 0, WouldRebase |-> 0,
     ReadyToMerge |-> 0, Skipped |-> 0, SkippedByReason |-> EmptyHistogram]

\* strings.HasPrefix(string(pr.Action), "skip:")
IsSkipAction(a) == a \in SkipActions

\* updateSummary counting a skip without its reason.
updateSummary_HistogramUntouched(summary, pr) ==
    CASE pr.Action = ActionMerged       -> [summary EXCEPT !.MergedSuccess = @ + 1]
      [] pr.Action = ActionMergeFailed  -> [summary EXCEPT !.MergeFailed = @ + 1]
      [] pr.Action = ActionRebased      -> [summary EXCEPT !.RebasedSuccess = @ + 1]
      [] pr.Action = ActionRebaseFailed -> [summary EXCEPT !.RebaseFailed = @ + 1]
      [] pr.Action = ActionWouldMerge   -> [summary EXCEPT !.WouldMerge = @ + 1]
      [] pr.Action = ActionWouldRebase  -> [summary EXCEPT !.WouldRebase = @ + 1]
      [] pr.Action = ActionReadyMerge   -> [summary EXCEPT !.ReadyToMerge = @ + 1]
      [] OTHER ->
            IF IsSkipAction(pr.Action) THEN
                IF pr.SkipReason # ReasonNone THEN
                    [summary EXCEPT !.Skipped = @ + 1,
                                    !.SkippedByReason[pr.SkipReason] = @]
                ELSE [summary EXCEPT !.Skipped = @ + 1]
            ELSE summary

updateSummary(summary, pr) ==
    CASE pr.Action = ActionMerged       -> [summary EXCEPT !.MergedSuccess = @ + 1]
      [] pr.Action = ActionMergeFailed  -> [summary EXCEPT !.MergeFailed = @ + 1]
      [] pr.Action = ActionRebased      -> [summary EXCEPT !.RebasedSuccess = @ + 1]
      [] pr.Action = ActionRebaseFailed -> [summary EXCEPT !.RebaseFailed = @ + 1]
      [] pr.Action = ActionWouldMerge   -> [summary EXCEPT !.WouldMerge = @ + 1]
      [] pr.Action = ActionWouldRebase  -> [summary EXCEPT !.WouldRebase = @ + 1]
      [] pr.Action = ActionReadyMerge   -> [summary EXCEPT !.ReadyToMerge = @ + 1]
      [] OTHER ->
            IF IsSkipAction(pr.Action) THEN
                IF pr.SkipReason # ReasonNone THEN
                    [summary EXCEPT !.Skipped = @ + 1,
                                    !.SkippedByReason[pr.SkipReason] = @ + 1]
                ELSE [summary EXCEPT !.Skipped = @ + 1]
            ELSE summary

\* The loop of Run that counts a finished repository's PR results.
RECURSIVE countPullRequests(_, _)
countPullRequests(summary, prs) ==
    IF prs = << >> THEN summary
    ELSE countPullRequests(
            updateSummary([summary EXCEPT !.CandidatesFound = @ + 1], Head(prs)),
            Tail(prs))

hasPendingActions(result) ==
    result.Summary.WouldMerge > 0 \/ result.Summary.WouldRebase > 0

\* hasActionsToPerform looking at planned merges only.
hasActionsToPerform_MergeOnly(result) ==
    result.Summary.WouldMerge > 0

hasActionsToPerform(result) ==
    result.Summary.WouldMerge > 0 \/ result.Summary.WouldRebase > 0

\* ------------------------------------------------------------- discovery
\* The repositories of the organization are named 1, 2, ... in listing order.
DefaultBranch == "main"
BaseBranches  == { "main", "release" }

RECURSIVE filterRepositories(_, _)
RECURSIVE filterRepositories_FirstEntryOnly(_, _)

\* discoverRepositories comparing a repository with the first allow-list
\* entry only.
filterRepositories_FirstEntryOnly(allRepos, allow) ==
    IF allRepos = << >> THEN << >>
    ELSE LET repo == Head(allRepos)
             rest == filterRepositories_FirstEntryOnly(Tail(allRepos), allow)
         IN  IF Len(allow) > 0 /\ ~(allow[1] = repo.Name)
             THEN rest
             ELSE << repo >> \o rest

\* The filter loop of discoverRepositories over the listing allRepos.
filterRepositories(allRepos, allow) ==
    IF allRepos = << >> THEN << >>
    ELSE LET repo == Head(allRepos)
             rest == filterRepositories(Tail(allRepos), allow)
         IN  IF Len(allow) > 0 /\ ~(\E k \in 1..Len(allow) : allow[k] = repo.Name)
             THEN rest
             ELSE << repo >> \o rest

RECURSIVE filterPullRequests(_, _, _)
RECURSIVE filterPullRequests_PrefixOnly(_, _, _)

\* discoverPullRequests keeping only head branches that start with the pattern.
filterPullRequests_PrefixOnly(allPRs, cfg, repo) ==
    IF allPRs = << >> THEN << >>
    ELSE LET pr   == Head(allPRs)
             rest == filterPullRequests_PrefixOnly(Tail(allPRs), cfg, repo)
         IN  IF pr.Draft THEN rest
             ELSE IF ~HasPrefix(pr.HeadBranch, cfg.SourceBranch) THEN rest
             ELSE IF pr.BaseBranch # repo.DefaultBranch THEN rest
             ELSE << pr >> \o rest

\* The filter loop of discoverPullRequests over the listing allPRs of the
\* repository repo.
filterPullRequests(allPRs, cfg, repo) ==
    IF allPRs = << >> THEN << >>
    ELSE LET pr   == Head(allPRs)
             rest == filterPullRequests(Tail(allPRs), cfg, repo)
         IN  IF pr.Draft THEN rest
             ELSE IF ~MatchesBranchPattern(pr.HeadBranch, cfg.SourceBranch) THEN rest
             ELSE IF pr.BaseBranch # repo.DefaultBranch THEN rest
             ELSE << pr >> \o rest

\* What ListPullRequests may answer: up to n open pull requests, numbered in
\* listing order.
PullRequestShapes ==
    [HeadBranch : HeadBranches, BaseBranch : BaseBranches, Draft : BOOLEAN]

PullRequestListings(n) ==
    UNION { { [k \in 1..m |->
                 [Number |-> k, HeadBranch |-> f[k].HeadBranch,
                  BaseBranch |-> f[k].BaseBranch, Draft |-> f[k].Draft]] :
              f \in [1..m -> PullRequestShapes] } : m \in 0..n }

\* The repositories an organization may hold: n of them in GitHub's order,
\* each with a default branch of branches and an archived flag of flags.
RepositoryListings(n, branches, flags) ==
    { [k \in 1..n |-> [Name |-> k, DefaultBranch |-> d[k], Archived |-> a[k]]] :
        d \in [1..n -> branches], a \in [1..n -> flags] }

\* n repositories on the usual default branch, none archived.
RepositoryListing(n) ==
    [k \in 1..n |-> [Name |-> k, DefaultBranch |-> DefaultBranch, Archived |-> FALSE]]

\* RealClient.ListRepositories: every repository the organization holds, in
\* GitHub's order, with its name, default branch and archived flag.
ListRepositories(orgRepos) ==
    [k \in DOMAIN orgRepos |->
        [Name |-> orgRepos[k].Name,
         DefaultBranch |-> orgRepos[k].DefaultBranch,
         Archived |-> orgRepos[k].Archived]]

\* ----------------------------------------------------------- configuration
\* config.Config as the merger reads it.  The merger does not validate the
\* flag combination, so every combination is a configuration it can be
\* constructed with.
RepoAllowLists == { << >>, << 2 >> }

OrgName    == "acme"
TokenValue == "token"

Configs ==
    [Org : { OrgName }, Token : { TokenValue },
     Rebase : BOOLEAN, Merge : BOOLEAN, SkipRebase : BOOLEAN, Confirm : BOOLEAN,
     RepoLimit : 0..MaxRepoLimit, Repos : RepoAllowLists,
     SourceBranch : { DependabotPrefix }]

\* ------------------------------------------------------- operator's answer
\* A line typed at the prompt, as characters; "\n" ends the line.
ToLowerChar(c) ==
    CASE c = "Y" -> "y" [] c = "E" -> "e" [] c = "S" -> "s" [] c = "N" -> "n"
      [] OTHER -> c

ToLower(s) == [k \in 1..Len(s) |-> ToLowerChar(s[k])]

IsSpace(c) == c \in { " ", "\n", "\t", "\r" }

RECURSIVE TrimLeft(_)
TrimLeft(s) ==
    IF s # << >> /\ IsSpace(Head(s)) THEN TrimLeft(Tail(s)) ELSE s

RECURSIVE TrimRight(_)
TrimRight(s) ==
    IF s # << >> /\ IsSpace(s[Len(s)]) THEN TrimRight(SubSeq(s, 1, Len(s) - 1)) ELSE s

TrimSpace(s) == TrimLeft(TrimRight(s))

\* bufio.Reader.ReadString('\n') fails when the input ends before a newline.
ReadFails(raw) == ~(\E k \in 1..Len(raw) : raw[k] = "\n")

\* The last one ends without a newline: the read fails.
StdinLines ==
    { << "y", "\n" >>, << "y", "e", "s", "\n" >>, << "Y", "\n" >>,
      << " ", "Y", "E", "S", " ", "\n" >>, << "n", "\n" >>, << "\n" >>,
      << "y" >> }

\* promptConfirmation taking an empty line for a yes.
promptConfirmation_DefaultYes(raw) ==
    IF ReadFails(raw) THEN [input |-> raw, err |-> TRUE, ok |-> FALSE]
    ELSE LET input == TrimSpace(ToLower(raw))
         IN  [input |-> input, err |-> FALSE,
              ok |-> (input = << "y" >> \/ input = << "y", "e", "s" >> \/ input = << >>)]


\* promptConfirmation: the normalised input and the decision.
promptConfirmation(raw) ==
    IF ReadFails(raw) THEN [input |-> raw, err |-> TRUE, ok |-> FALSE]
    ELSE LET input == TrimSpace(ToLower(raw))
         IN  [input |-> input, err |-> FALSE,
              ok |-> (input = << "y" >> \/ input = << "y", "e", "s" >>)]


\* ------------------------------------------------------------------ state
VARIABLES
    config,      \* the Config the Merger was built with
    pc,          \* where main.run is
    repos,       \* Run: the repositories discoverRepositories returned
    i,           \* Run / RunWithActions: index of the repository at hand
    j,           \* RunWithActions: index of the PR entry at hand
    repoCount,   \* Run: repositories processed without being skipped
    prs,         \* processRepository*: candidates not yet handled
    repoResult,  \* processRepository*: the RepositoryResult being built
    result,      \* the RunResult (Repositories and Summary)
    calls,       \* every collaborator call made so far, in order
    input,       \* promptConfirmation: the line read (normalised once read)
                 \* and the read error, kept until main.run acts on them
    listed,      \* candidates listed so far (bounds the run)
    answers,     \* evaluator specification: what the collaborator holds for
                 \* the PR at hand, asked for or not
    org          \* the organization on GitHub: its repositories, and the
                 \* open pull requests a repository lists when they are
                 \* settled for the whole run

vars == << config, pc, repos, i, j, repoCount, prs, repoResult, result, calls,
           input, listed, answers, org >>

\* Pull requests are opened and closed while a run goes on: what a listing
\* returns is left open and drawn call by call.
AnyPulls == [any |-> TRUE, listing |-> << >>]

\* Every repository lists the same open pull requests for the whole run.
SettledPulls(listing) == [any |-> FALSE, listing |-> listing]

\* What ListPullRequests may return for a repository of the organization.
OpenPullRequests ==
    IF org.pulls.any THEN PullRequestListings(MaxPRs - listed)
    ELSE { org.pulls.listing }

\* Organizations of up to MaxRepos unarchived repositories on the usual
\* default branch.
Organizations ==
    { [repos |-> RepositoryListing(n), pulls |-> AnyPulls] : n \in 0..MaxRepos }

NoInput == [line |-> << >>, err |-> FALSE]

\* No PR is singled out: the answers are drawn call by call.
NoAnswers ==
    [csErr |-> FALSE, cs |-> NoCheckStatus, bsErr |-> FALSE,
     bs |-> NoBranchStatus, mErr |-> FALSE]

NoRepoResult ==
    [Name |-> 0, PullRequests |-> << >>, Skipped |-> FALSE, SkipReason |-> ""]

\* Configurations of the runs explored: every flag combination and repo
\* limit, without a repository allow-list.
RunConfigs == { c \in Configs : c.Repos = << >> }

Init ==
    /\ config \in RunConfigs
    /\ pc = "Run"
    /\ repos = << >>
    /\ i = 1
    /\ j = 1
    /\ repoCount = 0
    /\ prs = << >>
    /\ repoResult = NoRepoResult
    /\ result = [Repositories |-> << >>, Summary |-> EmptySummary]
    /\ calls = << >>
    /\ input = NoInput
    /\ listed = 0
    /\ answers = NoAnswers
    /\ org \in Organizations

\* ------------------------------------------------------------ Merger.Run
\* Run up to the loop: discoverRepositories.  A listing error makes Run, and
\* with it main.run, return the error.
DiscoverRepositories ==
    /\ pc = "Run"
    /\ \E err \in BOOLEAN :
          /\ calls' = Append(calls,
                MkCall("ListRepositories", 0, 0, err, NoCheckStatus, NoBranchStatus))
          /\ IF err
             THEN /\ pc' = "Failed"
                  /\ repos' = repos
             ELSE /\ pc' = "Loop"
                  /\ repos' = filterRepositories(ListRepositories(org.repos), config.Repos)
    /\ UNCHANGED << answers, org, config, i, j, repoCount, prs, repoResult, result, input, listed >>

\* The repo-limit test letting one repository too many through.
RepoLimitReached_OffByOne == config.RepoLimit > 0 /\ repoCount > config.RepoLimit

RepoLimitReached == config.RepoLimit > 0 /\ repoCount >= config.RepoLimit

\* Loop body, limit branch: the repository is recorded as skipped untouched.
RunRepoLimit ==
    /\ pc = "Loop"
    /\ i <= Len(repos)
    /\ RepoLimitReached
    /\ result' = [result EXCEPT
            !.Repositories = Append(@,
                [Name |-> repos[i].Name, PullRequests |-> << >>,
                 Skipped |-> TRUE, SkipReason |-> "repo limit reached"]),
            !.Summary.ReposSkipped = @ + 1]
    /\ i' = i + 1
    /\ UNCHANGED << answers, org, config, pc, repos, j, repoCount, prs, repoResult, calls,
                    input, listed >>

\* processRepository* returning the repository unmarked when the listing of
\* its pull requests fails.
RunDiscoverPullRequests_ErrorNotMarkedSkipped ==
    /\ pc = "Loop"
    /\ i <= Len(repos)
    /\ ~RepoLimitReached
    /\ \E err \in BOOLEAN, allPRs \in OpenPullRequests :
          /\ calls' = Append(calls,
                MkCall("ListPullRequests", repos[i].Name, 0, err,
                       NoCheckStatus, NoBranchStatus))
          /\ IF err
             THEN /\ result' = [result EXCEPT
                        !.Repositories = Append(@,
                            [Name |-> repos[i].Name, PullRequests |-> << >>,
                             Skipped |-> FALSE, SkipReason |-> ""]),
                        !.Summary.ReposSkipped = @ + 1]
                  /\ i' = i + 1
                  /\ UNCHANGED << pc, prs, repoResult, listed >>
             ELSE /\ prs' = filterPullRequests(allPRs, config, repos[i])
                  /\ repoResult' = [Name |-> repos[i].Name, PullRequests |-> << >>,
                                    Skipped |-> FALSE, SkipReason |-> ""]
                  /\ listed' = listed + Len(prs')
                  /\ pc' = "Repo"
                  /\ UNCHANGED << result, i >>
    /\ UNCHANGED << answers, org, config, repos, j, repoCount, input >>

\* Run returning the error when the pull requests of a repository cannot be
\* listed.
RunDiscoverPullRequests_AbortsOnError ==
    /\ pc = "Loop"
    /\ i <= Len(repos)
    /\ ~RepoLimitReached
    /\ \E err \in BOOLEAN, allPRs \in OpenPullRequests :
          /\ calls' = Append(calls,
                MkCall("ListPullRequests", repos[i].Name, 0, err,
                       NoCheckStatus, NoBranchStatus))
          /\ IF err
             THEN /\ result' = [result EXCEPT
                        !.Repositories = Append(@,
                            [Name |-> repos[i].Name, PullRequests |-> << >>,
                             Skipped |-> TRUE, SkipReason |-> "API error"]),
                        !.Summary.ReposSkipped = @ + 1]
                  /\ i' = i + 1
                  /\ pc' = "Failed"
                  /\ UNCHANGED << prs, repoResult, listed >>
             ELSE /\ prs' = filterPullRequests(allPRs, config, repos[i])
                  /\ repoResult' = [Name |-> repos[i].Name, PullRequests |-> << >>,
                                    Skipped |-> FALSE, SkipReason |-> ""]
                  /\ listed' = listed + Len(prs')
                  /\ pc' = "Repo"
                  /\ UNCHANGED << result, i >>
    /\ UNCHANGED << answers, org, config, repos, j, repoCount, input >>

\* The loop body listing pull requests without testing the repository limit.
RunDiscoverPullRequests_IgnoresLimit ==
    /\ pc = "Loop"
    /\ i <= Len(repos)
    /\ \E err \in BOOLEAN, allPRs \in OpenPullRequests :
          /\ calls' = Append(calls,
                MkCall("ListPullRequests", repos[i].Name, 0, err,
                       NoCheckStatus, NoBranchStatus))
          /\ IF err
             THEN /\ result' = [result EXCEPT
                        !.Repositories = Append(@,
                            [Name |-> repos[i].Name, PullRequests |-> << >>,
                             Skipped |-> TRUE, SkipReason |-> "API error"]),
                        !.Summary.ReposSkipped = @ + 1]
                  /\ i' = i + 1
                  /\ UNCHANGED << pc, prs, repoResult, listed >>
             ELSE /\ prs' = filterPullRequests(allPRs, config, repos[i])
                  /\ repoResult' = [Name |-> repos[i].Name, PullRequests |-> << >>,
                                    Skipped |-> FALSE, SkipReason |-> ""]
                  /\ listed' = listed + Len(prs')
                  /\ pc' = "Repo"
                  /\ UNCHANGED << result, i >>
    /\ UNCHANGED << answers, org, config, repos, j, repoCount, input >>

\* Loop body, else branch, first half: processRepository(ScanOnly) lists the
\* pull requests.  On a listing error the repository result comes back
\* skipped and Run records it at once.
RunDiscoverPullRequests ==
    /\ pc = "Loop"
    /\ i <= Len(repos)
    /\ ~RepoLimitReached
    /\ \E err \in BOOLEAN, allPRs \in OpenPullRequests :
          /\ calls' = Append(calls,
                MkCall("ListPullRequests", repos[i].Name, 0, err,
                       NoCheckStatus, NoBranchStatus))
          /\ IF err
             THEN /\ result' = [result EXCEPT
                        !.Repositories = Append(@,
                            [Name |-> repos[i].Name, PullRequests |-> << >>,
                             Skipped |-> TRUE, SkipReason |-> "API error"]),
                        !.Summary.ReposSkipped = @ + 1]
                  /\ i' = i + 1
                  /\ UNCHANGED << pc, prs, repoResult, listed >>
             ELSE /\ prs' = filterPullRequests(allPRs, config, repos[i])
                  /\ repoResult' = [Name |-> repos[i].Name, PullRequests |-> << >>,
                                    Skipped |-> FALSE, SkipReason |-> ""]
                  /\ listed' = listed + Len(prs')
                  /\ pc' = "Repo"
                  /\ UNCHANGED << result, i >>
    /\ UNCHANGED << answers, org, config, repos, j, repoCount, input >>

\* processRepository leaving a skipped pull request out of the results.
ProcessRepositoryStep_DropsSkipped ==
    /\ pc = "Repo"
    /\ ~config.Confirm
    /\ prs # << >>
    /\ \E csErr \in BOOLEAN, cs \in CheckStatuses,
          bsErr \in BOOLEAN, bs \in BranchStatuses, mErr \in BOOLEAN :
          LET r == processPullRequest(config, repoResult.Name, Head(prs),
                                      csErr, cs, bsErr, bs, mErr)
          IN  /\ repoResult' = [repoResult EXCEPT
                                   !.PullRequests = IF IsSkipAction(r.result.Action)
                                                     THEN @ ELSE Append(@, r.result)]
              /\ calls' = calls \o r.calls
    /\ prs' = Tail(prs)
    /\ UNCHANGED << answers, org, config, pc, repos, i, j, repoCount, result, input, listed >>

\* processRepository walking the candidates from the last to the first.
ProcessRepositoryStep_LastFirst ==
    /\ pc = "Repo"
    /\ ~config.Confirm
    /\ prs # << >>
    /\ \E csErr \in BOOLEAN, cs \in CheckStatuses,
          bsErr \in BOOLEAN, bs \in BranchStatuses, mErr \in BOOLEAN :
          LET r == processPullRequest(config, repoResult.Name, prs[Len(prs)],
                                      csErr, cs, bsErr, bs, mErr)
          IN  /\ repoResult' = [repoResult EXCEPT
                                   !.PullRequests = Append(@, r.result)]
              /\ calls' = calls \o r.calls
    /\ prs' = SubSeq(prs, 1, Len(prs) - 1)
    /\ UNCHANGED << answers, org, config, pc, repos, i, j, repoCount, result, input, listed >>

\* processRepository: one turn of its loop over the candidates.
ProcessRepositoryStep ==
    /\ pc = "Repo"
    /\ ~config.Confirm
    /\ prs # << >>
    /\ \E csErr \in BOOLEAN, cs \in CheckStatuses,
          bsErr \in BOOLEAN, bs \in BranchStatuses, mErr \in BOOLEAN :
          LET r == processPullRequest(config, repoResult.Name, Head(prs),
                                      csErr, cs, bsErr, bs, mErr)
          IN  /\ repoResult' = [repoResult EXCEPT
                                   !.PullRequests = Append(@, r.result)]
              /\ calls' = calls \o r.calls
    /\ prs' = Tail(prs)
    /\ UNCHANGED << answers, org, config, pc, repos, i, j, repoCount, result, input, listed >>

\* processRepositoryScanOnly calling processPullRequest instead of
\* evaluatePullRequest.
ProcessRepositoryScanOnlyStep_Executes ==
    /\ pc = "Repo"
    /\ config.Confirm
    /\ prs # << >>
    /\ \E csErr \in BOOLEAN, cs \in CheckStatuses,
          bsErr \in BOOLEAN, bs \in BranchStatuses, mErr \in BOOLEAN :
          LET r == processPullRequest(config, repoResult.Name, Head(prs),
                                      csErr, cs, bsErr, bs, mErr)
          IN  /\ repoResult' = [repoResult EXCEPT
                                   !.PullRequests = Append(@, r.result)]
              /\ calls' = calls \o r.calls
    /\ prs' = Tail(prs)
    /\ UNCHANGED << answers, org, config, pc, repos, i, j, repoCount, result, input, listed >>

\* processRepositoryScanOnly: one turn of its loop over the candidates.
ProcessRepositoryScanOnlyStep ==
    /\ pc = "Repo"
    /\ config.Confirm
    /\ prs # << >>
    /\ \E csErr \in BOOLEAN, cs \in CheckStatuses,
          bsErr \in BOOLEAN, bs \in BranchStatuses :
          LET r == evaluatePullRequest(config, repoResult.Name, Head(prs),
                                       csErr, cs, bsErr, bs)
          IN  /\ repoResult' = [repoResult EXCEPT
                                   !.PullRequests = Append(@, r.result)]
              /\ calls' = calls \o r.calls
    /\ prs' = Tail(prs)
    /\ UNCHANGED << answers, org, config, pc, repos, i, j, repoCount, result, input, listed >>

\* processRepository* returns; Run appends the result and counts it.
RunRecordRepository ==
    /\ pc = "Repo"
    /\ prs = << >>
    /\ result' = [Repositories |-> Append(result.Repositories, repoResult),
                  Summary |-> countPullRequests(
                      [result.Summary EXCEPT !.ReposProcessed = @ + 1],
                      repoResult.PullRequests)]
    /\ repoCount' = repoCount + 1
    /\ i' = i + 1
    /\ pc' = "Loop"
    /\ repoResult' = NoRepoResult
    /\ UNCHANGED << answers, org, config, repos, j, prs, calls, input, listed >>

\* Run returns its result to main.run, which decides whether to prompt.
RunReturn ==
    /\ pc = "Loop"
    /\ i > Len(repos)
    /\ pc' = IF config.Confirm /\ hasActionsToPerform(result)
             THEN "Prompt" ELSE "WriteResult"
    /\ UNCHANGED << answers, org, config, repos, i, j, repoCount, prs, repoResult, result,
                    calls, input, listed >>

\* --------------------------------------------------------------- main.run
Prompt ==
    /\ pc = "Prompt"
    /\ \E raw \in StdinLines :
          LET p == promptConfirmation(raw)
          IN  /\ input' = [line |-> p.input, err |-> p.err]
              /\ pc' = IF p.ok THEN "RunWithActions" ELSE "Cancelled"
    /\ UNCHANGED << answers, org, config, repos, i, j, repoCount, prs, repoResult, result,
                    calls, listed >>

\* The reset of RunWithActions clearing CandidatesFound as well.
resetSummary_ResetsCandidates(summary) ==
    [summary EXCEPT !.MergedSuccess = 0, !.MergeFailed = 0,
                    !.RebasedSuccess = 0, !.RebaseFailed = 0,
                    !.WouldMerge = 0, !.WouldRebase = 0, !.Skipped = 0,
                    !.CandidatesFound = 0,
                    !.SkippedByReason = EmptyHistogram]

\* -------------------------------------------------- Merger.RunWithActions
\* The counters RunWithActions resets before it replays the plan.
resetSummary(summary) ==
    [summary EXCEPT !.MergedSuccess = 0, !.MergeFailed = 0,
                    !.RebasedSuccess = 0, !.RebaseFailed = 0,
                    !.WouldMerge = 0, !.WouldRebase = 0, !.Skipped = 0,
                    !.SkippedByReason = EmptyHistogram]

RunWithActionsBegin ==
    /\ pc = "RunWithActions"
    /\ result' = [result EXCEPT !.Summary = resetSummary(@)]
    /\ i' = 1
    /\ j' = 1
    /\ input' = NoInput
    /\ pc' = "Exec"
    /\ UNCHANGED << answers, org, config, repos, repoCount, prs, repoResult, calls, listed >>

\* The switch of RunWithActions fetching the check status again before a
\* planned merge.
executeEntry_Reevaluates(repo, pr, mErr) ==
    CASE pr.Action = ActionWouldRebase -> executeRebase(repo, pr, mErr)
      [] pr.Action = ActionWouldMerge  ->
            [result |-> executeMerge(repo, pr, mErr).result,
             calls |-> << CheckCall(repo, pr, FALSE, NoCheckStatus) >>
                         \o executeMerge(repo, pr, mErr).calls]
      [] OTHER -> [result |-> pr, calls |-> << >>]

\* executeEntry merging a PR whose plan was a rebase.
executeEntry_MergesRebasePlan(repo, pr, mErr) ==
    CASE pr.Action = ActionWouldRebase -> executeMerge(repo, pr, mErr)
      [] pr.Action = ActionWouldMerge  -> executeMerge(repo, pr, mErr)
      [] OTHER -> [result |-> pr, calls |-> << >>]

\* The switch on the planned action of one entry.
executeEntry(repo, pr, mErr) ==
    CASE pr.Action = ActionWouldRebase -> executeRebase(repo, pr, mErr)
      [] pr.Action = ActionWouldMerge  -> executeMerge(repo, pr, mErr)
      [] OTHER -> [result |-> pr, calls |-> << >>]

\* Inner loop: one entry is executed (or left alone) and counted.
RunWithActionsStep ==
    /\ pc = "Exec"
    /\ i <= Len(result.Repositories)
    /\ ~result.Repositories[i].Skipped
    /\ j <= Len(result.Repositories[i].PullRequests)
    /\ \E mErr \in BOOLEAN :
          LET repo == result.Repositories[i]
              r    == executeEntry(repo.Name, repo.PullRequests[j], mErr)
          IN  /\ result' = [result EXCEPT
                    !.Repositories[i].PullRequests[j] = r.result,
                    !.Summary = updateSummary(@, r.result)]
              /\ calls' = calls \o r.calls
    /\ j' = j + 1
    /\ UNCHANGED << answers, org, config, pc, repos, i, repoCount, prs, repoResult, input,
                    listed >>

\* Outer loop: a skipped repository is passed over, a finished one left.
RunWithActionsNextRepository ==
    /\ pc = "Exec"
    /\ i <= Len(result.Repositories)
    /\ \/ result.Repositories[i].Skipped
       \/ j > Len(result.Repositories[i].PullRequests)
    /\ i' = i + 1
    /\ j' = 1
    /\ UNCHANGED << answers, org, config, pc, repos, repoCount, prs, repoResult, result,
                    calls, input, listed >>

RunWithActionsReturn ==
    /\ pc = "Exec"
    /\ i > Len(result.Repositories)
    /\ pc' = "WriteResult"
    /\ UNCHANGED << answers, org, config, repos, i, j, repoCount, prs, repoResult, result,
                    calls, input, listed >>

Next ==
    \/ DiscoverRepositories
    \/ RunRepoLimit
    \/ RunDiscoverPullRequests
    \/ ProcessRepositoryStep
    \/ ProcessRepositoryScanOnlyStep
    \/ RunRecordRepository
    \/ RunReturn
    \/ Prompt
    \/ RunWithActionsBegin
    \/ RunWithActionsStep
    \/ RunWithActionsNextRepository
    \/ RunWithActionsReturn

Spec == Init /\ [][Next]_vars


\* ------------------------------------------- the evaluator on its own
\* One candidate, one evaluation: Init draws the flags, the candidate and
\* the collaborator's answers from every value their types admit; the action
\* applies the scan evaluator or the single-phase one.
Candidates ==
    { [Number |-> 1, HeadBranch |-> h, BaseBranch |-> DefaultBranch, Draft |-> FALSE] :
        h \in { b \in HeadBranches : MatchesBranchPattern(b, DependabotPrefix) } }

\* What the collaborator may hold for one PR: a check status (any flag
\* combination the type admits) or an error, a branch status or an error,
\* and whether a mutating call on the PR would fail.
Answers ==
    [csErr : BOOLEAN, cs : AllCheckStatuses, bsErr : BOOLEAN,
     bs : BranchStatuses, mErr : BOOLEAN]

InitEval ==
    /\ config \in { c \in Configs : c.Repos = << >> /\ c.RepoLimit = 0 /\ ~c.Confirm }
    /\ pc = "Eval"
    /\ repos = << >>
    /\ i = 1
    /\ j = 1
    /\ repoCount = 0
    /\ prs \in { << c >> : c \in Candidates }
    /\ repoResult = [Name |-> 1, PullRequests |-> << >>, Skipped |-> FALSE, SkipReason |-> ""]
    /\ result = [Repositories |-> << >>, Summary |-> EmptySummary]
    /\ calls = << >>
    /\ input = NoInput
    /\ listed = 1
    /\ answers \in Answers
    /\ org = [repos |-> RepositoryListing(1), pulls |-> AnyPulls]

\* One call of evaluatePullRequest on the candidate, the collaborator
\* answering from what it holds.
EvaluateOnce ==
    /\ pc = "Eval"
    /\ LET r == evaluatePullRequest(config, repoResult.Name, Head(prs),
                    answers.csErr, answers.cs, answers.bsErr, answers.bs)
       IN  /\ repoResult' = [repoResult EXCEPT
                                !.PullRequests = Append(@, r.result)]
           /\ calls' = calls \o r.calls
    /\ prs' = Tail(prs)
    /\ pc' = "Evaluated"
    /\ UNCHANGED << answers, org, config, repos, i, j, repoCount, result, input, listed >>

\* One call of processPullRequest on the candidate.
ProcessOnce ==
    /\ pc = "Eval"
    /\ LET r == processPullRequest(config, repoResult.Name, Head(prs),
                    answers.csErr, answers.cs, answers.bsErr, answers.bs,
                    answers.mErr)
       IN  /\ repoResult' = [repoResult EXCEPT
                                !.PullRequests = Append(@, r.result)]
           /\ calls' = calls \o r.calls
    /\ prs' = Tail(prs)
    /\ pc' = "Processed"
    /\ UNCHANGED << answers, org, config, repos, i, j, repoCount, result, input, listed >>

NextEval == EvaluateOnce \/ ProcessOnce

SpecEval == InitEval /\ [][NextEval]_vars


\* --------------------------------------------------- the program as a whole
\* Config.Validate: the error it returns, "" for nil.
Validate_SkipRebaseAlone(c) ==
    IF c.Org = "" THEN "--org is required"
    ELSE IF c.SourceBranch = << >> THEN "--source-branch is required"
    ELSE IF c.Token = "" THEN "no GitHub token found"
    ELSE IF c.Rebase /\ c.Merge THEN "--rebase and --merge are mutually exclusive"
    ELSE IF c.SkipRebase /\ c.Rebase
         THEN "--skip-rebase and --rebase are mutually exclusive"
    ELSE ""

Validate(c) ==
    IF c.Org = "" THEN "--org is required"
    ELSE IF c.SourceBranch = << >> THEN "--source-branch is required"
    ELSE IF c.Token = "" THEN "no GitHub token found"
    ELSE IF c.Rebase /\ c.Merge THEN "--rebase and --merge are mutually exclusive"
    ELSE IF c.SkipRebase /\ c.Rebase
         THEN "--skip-rebase and --rebase are mutually exclusive"
    ELSE IF c.SkipRebase /\ ~c.Merge THEN "--skip-rebase requires --merge"
    ELSE ""

\* Allow-lists given with --repo: none, single names, both names against
\* the listing order, and a name no repository has.
MainAllowLists == RepoAllowLists \cup { << 1 >>, << 2, 1 >>, << MaxRepos + 1 >> }

\* config.Config as ParseFlags hands it to main.run: any field may be
\* missing and any flags may be combined.
MainConfigs ==
    [Org : { "", OrgName }, Token : { "", TokenValue },
     Rebase : BOOLEAN, Merge : BOOLEAN, SkipRebase : BOOLEAN, Confirm : BOOLEAN,
     RepoLimit : 0..MaxRepoLimit, Repos : MainAllowLists,
     SourceBranch : { << >>, DependabotPrefix }]

\* A listing of one open pull request that passes the candidate filter.
OnePullRequest ==
    << [Number |-> 1, HeadBranch |-> << "dependabot/", "npm" >>,
        BaseBranch |-> DefaultBranch, Draft |-> FALSE] >>

\* Organizations of up to MaxRepos repositories, archived or not, each with
\* no open pull request or each with one candidate.
MainOrganizations ==
    { [repos |-> rs, pulls |-> SettledPulls(l)] :
        rs \in UNION { RepositoryListings(n, { DefaultBranch }, BOOLEAN) :
                         n \in 0..MaxRepos },
        l \in { << >>, OnePullRequest } }

InitMain ==
    /\ config \in MainConfigs
    /\ org \in MainOrganizations
    /\ pc = "Main"
    /\ repos = << >>
    /\ i = 1
    /\ j = 1
    /\ repoCount = 0
    /\ prs = << >>
    /\ repoResult = NoRepoResult
    /\ result = [Repositories |-> << >>, Summary |-> EmptySummary]
    /\ calls = << >>
    /\ input = NoInput
    /\ listed = 0
    /\ answers = NoAnswers

\* main.run: the configuration is validated before the client and the merger
\* are created; an error is returned to main, which exits with status 1.
MainValidate ==
    /\ pc = "Main"
    /\ pc' = IF Validate(config) # "" THEN "ConfigError" ELSE "Run"
    /\ UNCHANGED << answers, org, config, repos, i, j, repoCount, prs, repoResult,
                    result, calls, input, listed >>

NextMain == MainValidate \/ Next

SpecMain == InitMain /\ [][NextMain]_vars

\* ------------------------------------- one repository and what it lists
\* Patterns given with --source-branch.
BranchPatterns == { DependabotPrefix, << "dependabot/", "npm" >>, << "npm" >> }

PullsConfigs ==
    { [c EXCEPT !.SourceBranch = p] :
        c \in { d \in Configs : /\ d.Repos = << >> /\ d.RepoLimit = 0
                                /\ d.Merge /\ ~d.Rebase /\ ~d.SkipRebase },
        p \in BranchPatterns }

\* One unarchived repository on either default branch, listing up to MaxPRs
\* open pull requests of every shape.
PullsOrganizations ==
    { [repos |-> rs, pulls |-> SettledPulls(l)] :
        rs \in RepositoryListings(1, BaseBranches, { FALSE }),
        l \in PullRequestListings(MaxPRs) }

InitPulls ==
    /\ config \in PullsConfigs
    /\ org \in PullsOrganizations
    /\ pc = "Run"
    /\ repos = << >>
    /\ i = 1
    /\ j = 1
    /\ repoCount = 0
    /\ prs = << >>
    /\ repoResult = NoRepoResult
    /\ result = [Repositories |-> << >>, Summary |-> EmptySummary]
    /\ calls = << >>
    /\ input = NoInput
    /\ listed = 0
    /\ answers = NoAnswers

\* Run up to the point where the repository is recorded.
NextPulls ==
    \/ DiscoverRepositories
    \/ RunDiscoverPullRequests
    \/ ProcessRepositoryStep
    \/ ProcessRepositoryScanOnlyStep
    \/ RunRecordRepository

SpecPulls == InitPulls /\ [][NextPulls]_vars


\* ------------------------------------------------ RealClient.GetCheckStatus
\* ListOptions{PerPage: 100}: the most items one response carries.  Both
\* requests of GetCheckStatus are made once and their first response is all
\* that is read.
PerPage == 100

\* Groups of a run-length encoded list.
MaxGroups == 2

\* A check run as GetCheckStatus reads it: its status and, once completed,
\* its conclusion.
CheckRunShapes ==
    { [status |-> "queued",      conclusion |-> ""],
      [status |-> "in_progress", conclusion |-> ""],
      [status |-> "completed",   conclusion |-> "success"],
      [status |-> "completed",   conclusion |-> "failure"],
      [status |-> "completed",   conclusion |-> "skipped"] }

\* The state of a commit status context.
StatusStates == { "success", "pending", "failure" }

\* Lists that may be longer than a page are kept run-length encoded: a
\* sequence of groups, each standing for count equal items in a row.
GroupedLists(items, n) ==
    UNION { [1..m -> [item : items, count : { 1, PerPage }]] : m \in 0..n }

\* The first room items of a grouped list: what one response carries.
RECURSIVE FirstPage(_, _)
FirstPage(groups, room) ==
    IF groups = << >> \/ room = 0 THEN << >>
    ELSE LET g    == Head(groups)
             take == IF g.count <= room THEN g.count ELSE room
         IN  << [item |-> g.item, count |-> take] >>
                \o FirstPage(Tail(groups), room - take)

\* The loop over checkRuns.CheckRuns: the first run that decides.
RECURSIVE checkRunsVerdict(_)
checkRunsVerdict(page) ==
    IF page = << >> THEN "passing"
    ELSE LET check == Head(page).item
         IN  IF check.status = "queued" \/ check.status = "in_progress"
             THEN "pending"
             ELSE IF check.conclusion # "success" THEN "failing"
             ELSE checkRunsVerdict(Tail(page))

\* The loop over combinedStatus.Statuses: the first status that decides.
RECURSIVE statusesVerdict(_)
statusesVerdict(page) ==
    IF page = << >> THEN "passing"
    ELSE LET state == Head(page).item
         IN  IF state = "pending" THEN "pending"
             ELSE IF state # "success" THEN "failing"
             ELSE statusesVerdict(Tail(page))

\* What GitHub holds for a commit: its check runs and its status contexts,
\* and whether either request fails.
Commits ==
    [checkRuns : GroupedLists(CheckRunShapes, MaxGroups),
     statuses  : GroupedLists(StatusStates, MaxGroups),
     runsErr   : BOOLEAN, statusErr : BOOLEAN]

\* GetCheckStatus reporting a commit without any check as passing.
GetCheckStatus_NoChecksPass(commit) ==
    IF commit.runsErr \/ commit.statusErr
    THEN [err |-> TRUE, status |-> NoCheckStatus]
    ELSE LET runs == FirstPage(commit.checkRuns, PerPage)
             sts  == FirstPage(commit.statuses, PerPage)
             rv   == checkRunsVerdict(runs)
             sv   == statusesVerdict(sts)
             mk(a, p, n) == [err |-> FALSE,
                             status |-> [AllPassing |-> a, Pending |-> p, NoChecks |-> n]]
         IN  IF runs = << >> /\ sts = << >> THEN mk(TRUE, FALSE, TRUE)
             ELSE IF rv = "pending" THEN mk(FALSE, TRUE, FALSE)
             ELSE IF rv = "failing" THEN mk(FALSE, FALSE, FALSE)
             ELSE IF sv = "pending" THEN mk(FALSE, TRUE, FALSE)
             ELSE IF sv = "failing" THEN mk(FALSE, FALSE, FALSE)
             ELSE mk(TRUE, FALSE, FALSE)

\* RealClient.GetCheckStatus: the error flag and the CheckStatus returned.
GetCheckStatus(commit) ==
    IF commit.runsErr \/ commit.statusErr
    THEN [err |-> TRUE, status |-> NoCheckStatus]
    ELSE LET runs == FirstPage(commit.checkRuns, PerPage)
             sts  == FirstPage(commit.statuses, PerPage)
             rv   == checkRunsVerdict(runs)
             sv   == statusesVerdict(sts)
             mk(a, p, n) == [err |-> FALSE,
                             status |-> [AllPassing |-> a, Pending |-> p, NoChecks |-> n]]
         IN  IF runs = << >> /\ sts = << >> THEN mk(FALSE, FALSE, TRUE)
             ELSE IF rv = "pending" THEN mk(FALSE, TRUE, FALSE)
             ELSE IF rv = "failing" THEN mk(FALSE, FALSE, FALSE)
             ELSE IF sv = "pending" THEN mk(FALSE, TRUE, FALSE)
             ELSE IF sv = "failing" THEN mk(FALSE, FALSE, FALSE)
             ELSE mk(TRUE, FALSE, FALSE)

\* One candidate of one repository, whose commit holds any of the Commits.
InitChecks ==
    /\ config \in { c \in RunConfigs : /\ c.Merge /\ ~c.Rebase /\ ~c.SkipRebase
                                       /\ ~c.Confirm /\ c.RepoLimit = 0 }
    /\ org \in { [repos |-> RepositoryListing(1), pulls |-> AnyPulls, commit |-> c] :
                   c \in Commits }
    /\ pc = "AskChecks"
    /\ repos = << >>
    /\ i = 1
    /\ j = 1
    /\ repoCount = 0
    /\ prs = OnePullRequest
    /\ repoResult = [Name |-> 1, PullRequests |-> << >>, Skipped |-> FALSE, SkipReason |-> ""]
    /\ result = [Repositories |-> << >>, Summary |-> EmptySummary]
    /\ calls = << >>
    /\ input = NoInput
    /\ listed = 1
    /\ answers = NoAnswers

\* The client is asked for the check status of the candidate's commit; its
\* answer is logged and kept.
AskCheckStatus ==
    /\ pc = "AskChecks"
    /\ LET r == GetCheckStatus(org.commit)
       IN  /\ answers' = [answers EXCEPT !.csErr = r.err, !.cs = r.status]
           /\ calls' = Append(calls, CheckCall(repoResult.Name, Head(prs), r.err, r.status))
    /\ pc' = "AskedChecks"
    /\ UNCHANGED << org, config, repos, i, j, repoCount, prs, repoResult, result, input,
                    listed >>

NextChecks == AskCheckStatus

SpecChecks == InitChecks /\ [][NextChecks]_vars


\* ----------------------------------------------- RealClient.GetBranchStatus
\* for i := 0; i < 5 && pr.Mergeable == nil; i++: the re-fetches the loop
\* makes at most.
PollLimit == 5

\* The most fetches of a pull request that may answer without mergeability.
MaxNilFetches == 6

\* What GitHub holds for a pull request: its first nils fetches come back
\* with Mergeable unset, every later one fails ("err") or carries Mergeable
\* "true" or "false"; the comparison of the branches fails or tells how many
\* commits the head is behind.
PullWorlds ==
    [nils : 0..MaxNilFetches, then : { "true", "false", "err" },
     compareErr : BOOLEAN, behindBy : 0..MaxBehind]

\* PullRequests.Get, the n-th time it is called.
Fetch(pull, n) == IF n <= pull.nils THEN "nil" ELSE pull.then

\* The polling loop after n fetches, its counter at k: the last answer read
\* and the fetches made.
RECURSIVE Poll(_, _, _)
Poll(pull, k, n) ==
    IF k < PollLimit /\ Fetch(pull, n) = "nil"
    THEN IF Fetch(pull, n + 1) = "err"
         THEN [mergeable |-> "err", fetches |-> n + 1]
         ELSE Poll(pull, k + 1, n + 1)
    ELSE [mergeable |-> Fetch(pull, n), fetches |-> n]

\* GetBranchStatus reading an undetermined Mergeable as "not mergeable".
GetBranchStatus_NilIsConflict(pull) ==
    LET polled == IF Fetch(pull, 1) = "err"
                  THEN [mergeable |-> "err", fetches |-> 1]
                  ELSE Poll(pull, 0, 1)
        failed(n) == [err |-> TRUE, status |-> NoBranchStatus, fetches |-> n]
    IN  IF polled.mergeable = "err" THEN failed(polled.fetches)
        ELSE IF pull.compareErr THEN failed(polled.fetches)
        ELSE [err |-> FALSE,
              status |-> [UpToDate    |-> pull.behindBy = 0,
                          BehindBy    |-> pull.behindBy,
                          HasConflict |-> polled.mergeable # "true"],
              fetches |-> polled.fetches]

\* RealClient.GetBranchStatus: the error flag, the BranchStatus returned and
\* the fetches of the pull request it made.
GetBranchStatus(pull) ==
    LET polled == IF Fetch(pull, 1) = "err"
                  THEN [mergeable |-> "err", fetches |-> 1]
                  ELSE Poll(pull, 0, 1)
        failed(n) == [err |-> TRUE, status |-> NoBranchStatus, fetches |-> n]
    IN  IF polled.mergeable = "err" THEN failed(polled.fetches)
        ELSE IF polled.mergeable = "nil" THEN failed(polled.fetches)
        ELSE IF pull.compareErr THEN failed(polled.fetches)
        ELSE [err |-> FALSE,
              status |-> [UpToDate    |-> pull.behindBy = 0,
                          BehindBy    |-> pull.behindBy,
                          HasConflict |-> polled.mergeable # "true"],
              fetches |-> polled.fetches]

\* One candidate of one repository whose pull request is any of PullWorlds;
\* its checks answer in any state the client reports.
InitBranch ==
    /\ config \in { c \in Configs : c.Repos = << >> /\ c.RepoLimit = 0 /\ ~c.Confirm }
    /\ org \in { [repos |-> RepositoryListing(1), pulls |-> AnyPulls, pull |-> p] :
                   p \in PullWorlds }
    /\ pc = "Eval"
    /\ repos = << >>
    /\ i = 1
    /\ j = 1
    /\ repoCount = 0
    /\ prs = OnePullRequest
    /\ repoResult = [Name |-> 1, PullRequests |-> << >>, Skipped |-> FALSE, SkipReason |-> ""]
    /\ result = [Repositories |-> << >>, Summary |-> EmptySummary]
    /\ calls = << >>
    /\ input = NoInput
    /\ listed = 1
    /\ answers \in [csErr : { FALSE }, cs : CheckStatuses, bsErr : { FALSE },
                    bs : { NoBranchStatus }, mErr : BOOLEAN, fetches : { 0 }]

\* The answers kept once the handler has returned with the calls cs: what
\* GetBranchStatus answered if it was asked, nothing new if it was not.
BranchAnswer(b, cs) ==
    IF \E k \in DOMAIN cs : cs[k].op = "GetBranchStatus"
    THEN [answers EXCEPT !.bsErr = b.err, !.bs = b.status, !.fetches = b.fetches]
    ELSE answers

\* evaluatePullRequest on the candidate, RealClient.GetBranchStatus answering.
EvaluateBranch ==
    /\ pc = "Eval"
    /\ LET b == GetBranchStatus(org.pull)
           r == evaluatePullRequest(config, repoResult.Name, Head(prs),
                    answers.csErr, answers.cs, b.err, b.status)
       IN  /\ answers' = BranchAnswer(b, r.calls)
           /\ repoResult' = [repoResult EXCEPT
                                !.PullRequests = Append(@, r.result)]
           /\ calls' = calls \o r.calls
    /\ prs' = Tail(prs)
    /\ pc' = "Evaluated"
    /\ UNCHANGED << org, config, repos, i, j, repoCount, result, input, listed >>

\* processPullRequest on the candidate, RealClient.GetBranchStatus answering.
ProcessBranch ==
    /\ pc = "Eval"
    /\ LET b == GetBranchStatus(org.pull)
           r == processPullRequest(config, repoResult.Name, Head(prs),
                    answers.csErr, answers.cs, b.err, b.status, answers.mErr)
       IN  /\ answers' = BranchAnswer(b, r.calls)
           /\ repoResult' = [repoResult EXCEPT
                                !.PullRequests = Append(@, r.result)]
           /\ calls' = calls \o r.calls
    /\ prs' = Tail(prs)
    /\ pc' = "Processed"
    /\ UNCHANGED << org, config, repos, i, j, repoCount, result, input, listed >>

NextBranch == EvaluateBranch \/ ProcessBranch

SpecBranch == InitBranch /\ [][NextBranch]_vars


\* ================================================================ claims
\* ------------------------------------------------- helpers over the log
CallIndices == DOMAIN calls

IsMutating(c) == c.op \in MutatingOps

MutatingCallsFor(repo, pr) ==
    { k \in CallIndices : IsMutating(calls[k]) /\ calls[k].repo = repo /\ calls[k].pr = pr }

NoMutatingCall == \A k \in CallIndices : ~IsMutating(calls[k])

PendingActions == { ActionWouldMerge, ActionWouldRebase }

\* ------------------------------------------------------------------- C10
\* The decision rules 1 to 4, first match wins, as an action and a skip
\* reason.  Carried gives the single-phase outcome, where a planned action
\* has already been carried out with result mErr.
RuleOutcome(cfg, csErr, cs, bsErr, bs) ==
    LET rebaseOnly == cfg.Rebase /\ ~cfg.Merge
        mergeGate  == IF cfg.Merge THEN ActionWouldMerge ELSE ActionReadyMerge
    IN  \* rule 1: check-status gate
        IF csErr THEN ActionSkipAPIError
        ELSE IF ~cs.NoChecks /\ cs.Pending /\ ~rebaseOnly THEN ActionSkipChecksPending
        ELSE IF ~cs.NoChecks /\ ~cs.Pending /\ ~cs.AllPassing /\ ~rebaseOnly
             THEN ActionSkipChecksFailing
        \* rule 2: branch-status gate
        ELSE IF bsErr THEN ActionSkipAPIError
        ELSE IF bs.HasConflict THEN ActionSkipConflict
        \* rule 3: freshness gate
        ELSE IF bs.BehindBy > 0 THEN
            IF cfg.SkipRebase /\ cfg.Merge THEN mergeGate
            ELSE IF ~cfg.Rebase THEN ActionSkipBranchBehind
            ELSE ActionWouldRebase
        \* rule 4: merge gate
        ELSE mergeGate

RuleSkipReason(action) ==
    CASE action = ActionSkipAPIError      -> ReasonAPIError
      [] action = ActionSkipChecksPending -> ReasonChecksPending
      [] action = ActionSkipChecksFailing -> ReasonChecksFailing
      [] action = ActionSkipConflict      -> ReasonConflict
      [] action = ActionSkipBranchBehind  -> ReasonBranchBehind
      [] OTHER -> ReasonNone

Carried(action, mErr) ==
    CASE action = ActionWouldMerge  -> IF mErr THEN ActionMergeFailed ELSE ActionMerged
      [] action = ActionWouldRebase -> IF mErr THEN ActionRebaseFailed ELSE ActionRebased
      [] OTHER -> action

\* The answers the evaluation at hand received, read off the log; an answer
\* that was never asked for is left open.
AskedCheck  == { k \in CallIndices : calls[k].op = "GetCheckStatus" }
AskedBranch == { k \in CallIndices : calls[k].op = "GetBranchStatus" }
AskedMutate == { k \in CallIndices : IsMutating(calls[k]) }

AnswersSeen ==
    { a \in [csErr : BOOLEAN, cs : AllCheckStatuses, bsErr : BOOLEAN,
             bs : BranchStatuses, mErr : BOOLEAN] :
        /\ \A k \in AskedCheck :
              a.csErr = calls[k].err /\ (~a.csErr => a.cs = calls[k].check)
        /\ \A k \in AskedBranch :
              a.bsErr = calls[k].err /\ (~a.bsErr => a.bs = calls[k].branch)
        /\ \A k \in AskedMutate : a.mErr = calls[k].err }

\* C10: for every check-status answer, branch-status answer and flag
\* combination, the outcome of evaluatePullRequest is the outcome of the
\* first matching rule in the order check-status gate, branch-status gate,
\* freshness gate, merge gate, and the outcome of processPullRequest is that
\* outcome carried out.
C10_EvaluatorFollowsRules ==
    pc \in { "Evaluated", "Processed" } =>
        /\ AskedCheck # {}
        /\ \A a \in AnswersSeen :
              LET rule == RuleOutcome(config, a.csErr, a.cs, a.bsErr, a.bs)
                  got  == repoResult.PullRequests[1]
              IN  /\ got.Action = IF pc = "Evaluated" THEN rule ELSE Carried(rule, a.mErr)
                  /\ got.SkipReason = RuleSkipReason(rule)

\* A behind, conflict-free PR with failing checks in rebase-only mode was
\* planned for a rebase: the exception of rule 1 and rule 3 both applied.
C10_Witness ==
    /\ pc = "Evaluated"
    /\ config.Rebase /\ ~config.Merge
    /\ \E k \in AskedCheck : ~calls[k].err /\ calls[k].check = NoCheckStatus
    /\ \E k \in AskedBranch : ~calls[k].err /\ calls[k].branch.BehindBy > 0
    /\ repoResult.PullRequests[1].Action = ActionWouldRebase


\* ------------------------------------------------- helpers over results
EntriesOf(res) ==
    UNION { { [repo |-> res.Repositories[r].Name,
               entry |-> res.Repositories[r].PullRequests[k]] :
                k \in DOMAIN res.Repositories[r].PullRequests } :
            r \in DOMAIN res.Repositories }

\* Every PR entry recorded so far: those of the RunResult and those of the
\* repository result still being built.
AllEntries ==
    EntriesOf(result) \cup
    { [repo |-> repoResult.Name, entry |-> repoResult.PullRequests[k]] :
        k \in DOMAIN repoResult.PullRequests }

ScanActions == { ActionWouldMerge, ActionWouldRebase, ActionReadyMerge } \cup SkipActions

\* The calls a step adds to the log.
NewCalls == { k \in DOMAIN calls' : k > Len(calls) }

InRunWithActions == pc \in { "RunWithActions", "Exec" }

YesAnswers == { << "y" >>, << "y", "e", "s" >> }

\* -------------------------------------------------------------------- C1
\* C1: MergePullRequest is called for a pull request only after this run
\* fetched for it a check status that is allPassing or noChecks and a branch
\* status without conflict; a PR whose fetched checks are pending or failing
\* (or could not be fetched) gets no merge call, under skip-rebase too.
C1_MergeOnlyWhenChecksPass ==
    \A k \in CallIndices :
        calls[k].op = "MergePullRequest" =>
            /\ \E a \in 1..(k - 1) :
                  /\ calls[a].op = "GetCheckStatus"
                  /\ calls[a].repo = calls[k].repo /\ calls[a].pr = calls[k].pr
                  /\ ~calls[a].err
                  /\ calls[a].check.AllPassing \/ calls[a].check.NoChecks
            /\ \E b \in 1..(k - 1) :
                  /\ calls[b].op = "GetBranchStatus"
                  /\ calls[b].repo = calls[k].repo /\ calls[b].pr = calls[k].pr
                  /\ ~calls[b].err
                  /\ ~calls[b].branch.HasConflict
            /\ ~\E a \in CallIndices :
                  /\ calls[a].op = "GetCheckStatus"
                  /\ calls[a].repo = calls[k].repo /\ calls[a].pr = calls[k].pr
                  /\ calls[a].err \/ (~calls[a].check.AllPassing /\ ~calls[a].check.NoChecks)

\* A finished confirm-flow run under merge with skip-rebase: one PR that was
\* behind has been merged, another with pending checks has not.
C1_Witness ==
    /\ pc = "WriteResult"
    /\ config.Confirm /\ config.Merge /\ config.SkipRebase
    /\ \E k, b, a \in CallIndices :
          /\ calls[k].op = "MergePullRequest"
          /\ calls[b].op = "GetBranchStatus" /\ calls[b].repo = calls[k].repo
          /\ calls[b].pr = calls[k].pr /\ calls[b].branch.BehindBy > 0
          /\ calls[a].op = "GetCheckStatus" /\ ~calls[a].err /\ calls[a].check.Pending
          /\ MutatingCallsFor(calls[a].repo, calls[a].pr) = {}

\* -------------------------------------------------------------------- C2
\* C2: a PR whose fetched branch status has hasConflict = true never gets a
\* mutating call (merge, branch update, rebase comment), whatever the flags
\* and in both flows.
C2_ConflictNeverMutated ==
    \A b \in CallIndices :
        (calls[b].op = "GetBranchStatus" /\ ~calls[b].err /\ calls[b].branch.HasConflict)
            => MutatingCallsFor(calls[b].repo, calls[b].pr) = {}

\* A finished run with rebase and merge both set in which a conflicting PR
\* that is behind was left alone while another PR was mutated.
C2_Witness ==
    /\ pc = "WriteResult"
    /\ config.Rebase /\ config.Merge
    /\ \E b \in CallIndices :
          /\ calls[b].op = "GetBranchStatus" /\ ~calls[b].err
          /\ calls[b].branch.HasConflict /\ calls[b].branch.BehindBy > 0
    /\ \E e \in AllEntries : e.entry.Action = ActionSkipConflict
    /\ ~NoMutatingCall

\* -------------------------------------------------------------------- C3
\* C3: MergePullRequest is called only when mergeEnabled is set, UpdateBranch
\* and PostRebaseComment only when rebaseEnabled is set; so an analysis-only
\* run mutates nothing, a rebase-only run never merges and a merge-only run
\* never rebases.
C3_MutationsGatedByFlags ==
    /\ \A k \in CallIndices :
          /\ calls[k].op = "MergePullRequest" => config.Merge
          /\ calls[k].op \in { "UpdateBranch", "PostRebaseComment" } => config.Rebase
    /\ (~config.Merge /\ ~config.Rebase) => NoMutatingCall

\* A finished rebase-only run that updated one branch and left a PR that was
\* ready to merge unmerged.
C3_Witness ==
    /\ pc = "WriteResult"
    /\ config.Rebase /\ ~config.Merge
    /\ \E k \in CallIndices : calls[k].op = "UpdateBranch"
    /\ \E e \in AllEntries : e.entry.Action = ActionReadyMerge

\* -------------------------------------------------------------------- C4
\* C4: up to the answer at the prompt a confirm-mode run has issued no
\* mutating call, and every outcome it has recorded is WouldMerge,
\* WouldRebase, ReadyButMergeDisabled or a skip.
C4_ScanMutatesNothing ==
    (config.Confirm /\ ~InRunWithActions /\ pc # "WriteResult") =>
        /\ NoMutatingCall
        /\ \A e \in AllEntries : e.entry.Action \in ScanActions

\* The scan is over and waits at the prompt with a planned merge and a
\* planned rebase on record.
C4_Witness ==
    /\ config.Confirm
    /\ pc = "Prompt"
    /\ \E e \in AllEntries : e.entry.Action = ActionWouldMerge
    /\ \E e \in AllEntries : e.entry.Action = ActionWouldRebase
    /\ Len(calls) > 2

\* -------------------------------------------------------------------- C5
\* C5: in confirm mode a mutating call is only issued inside RunWithActions,
\* which is only entered from the prompt on an answer that reads y or yes
\* (after trimming and lower-casing), and the prompt is only reached once
\* Run's loop over all repositories is over; any other answer, or a failed
\* read, ends the invocation with no mutating call.
C5_MutationsOnlyAfterYes ==
    [][ /\ (config.Confirm /\ \E k \in NewCalls : IsMutating(calls'[k]))
              => pc = "Exec"
        /\ (pc' = "Exec" /\ pc # "Exec") => pc = "RunWithActions"
        /\ (pc' = "RunWithActions")
              => (pc = "Prompt" /\ ~input'.err /\ input'.line \in YesAnswers)
        /\ (pc' = "Prompt")
              => (pc = "Loop" /\ i > Len(repos) /\ config.Confirm /\ NoMutatingCall)
        /\ (pc = "Prompt" /\ pc' # "RunWithActions")
              => /\ pc' = "Cancelled"
                 /\ input'.err \/ input'.line \notin YesAnswers
                 /\ calls' = calls
        /\ pc # "Cancelled"
      ]_vars

\* A confirm-mode invocation that was confirmed and has mutated.
C5_Witness ==
    /\ config.Confirm
    /\ pc = "WriteResult"
    /\ ~NoMutatingCall

\* -------------------------------------------------------------------- C6
\* The calls a scanned entry plans: the merge call, or the rebase call that
\* fits the head branch.
PlannedOps(entry) ==
    CASE entry.Action = ActionWouldMerge -> { "MergePullRequest" }
      [] entry.Action = ActionWouldRebase ->
            IF IsDependabotBranch(entry.HeadBranch)
            THEN { "PostRebaseComment" } ELSE { "UpdateBranch" }
      [] OTHER -> {}

\* C6: a step of RunWithActions adds no ListRepositories, ListPullRequests,
\* GetCheckStatus or GetBranchStatus call, and the calls it adds are the
\* ones the scanned entry at hand dictates: one merge call for a WouldMerge
\* entry, one rebase call for a WouldRebase entry, none for any other.
C6_ExecuteNeverReads ==
    [][ InRunWithActions =>
          /\ \A k \in NewCalls : calls'[k].op \notin ReadingOps
          /\ SubSeq(calls', 1, Len(calls)) = calls
          /\ (pc = "Exec" /\ j' = j + 1) =>
                LET repo  == result.Repositories[i]
                    entry == repo.PullRequests[j]
                IN  /\ { calls'[k].op : k \in NewCalls } = PlannedOps(entry)
                    /\ Cardinality(NewCalls) = Cardinality(PlannedOps(entry))
                    /\ \A k \in NewCalls :
                          calls'[k].repo = repo.Name /\ calls'[k].pr = entry.Number
          /\ ~(pc = "Exec" /\ j' = j + 1) => calls' = calls
      ]_vars

\* RunWithActions is in the middle of its replay and has mutated.
C6_Witness ==
    /\ pc = "Exec"
    /\ j > 1
    /\ ~NoMutatingCall
    /\ \E e \in AllEntries : e.entry.Action \in PendingActions

\* -------------------------------------------------------------------- C7
\* The outcomes an executed entry may end in.
TerminalFor(action) ==
    CASE action = ActionWouldMerge  -> { ActionMerged, ActionMergeFailed }
      [] action = ActionWouldRebase -> { ActionRebased, ActionRebaseFailed }
      [] OTHER -> { action }

TerminalActions ==
    { ActionMerged, ActionMergeFailed, ActionRebased, ActionRebaseFailed }

\* C7: a step of RunWithActions on a WouldMerge entry leaves it Merged or
\* MergeFailed, on a WouldRebase entry Rebased or RebaseFailed, with exactly
\* one mutating call for that PR; when RunWithActions returns no entry is
\* WouldMerge or WouldRebase, and each PR has had one mutating call if its
\* entry is now terminal and none otherwise.
C7_ExecuteCompletesPlan ==
    [][ /\ (pc = "Exec" /\ j' = j + 1) =>
              LET repo   == result.Repositories[i]
                  entry  == repo.PullRequests[j]
                  entry2 == result'.Repositories[i].PullRequests[j]
              IN  /\ entry2.Action \in TerminalFor(entry.Action)
                  /\ entry.Action \in PendingActions =>
                        /\ Cardinality(NewCalls) = 1
                        /\ \A k \in NewCalls :
                              /\ IsMutating(calls'[k])
                              /\ calls'[k].repo = repo.Name
                              /\ calls'[k].pr = entry.Number
                              /\ calls'[k].err =
                                    (entry2.Action \in { ActionMergeFailed, ActionRebaseFailed })
        /\ (pc = "Exec" /\ pc' = "WriteResult") =>
              \A e \in EntriesOf(result) :
                  /\ e.entry.Action \notin PendingActions
                  /\ Cardinality(MutatingCallsFor(e.repo, e.entry.Number))
                        = IF e.entry.Action \in TerminalActions THEN 1 ELSE 0
      ]_vars

\* RunWithActions has returned with one entry merged and one whose rebase
\* failed.
C7_Witness ==
    /\ config.Confirm
    /\ pc = "WriteResult"
    /\ \E e \in AllEntries : e.entry.Action = ActionMerged
    /\ \E e \in AllEntries : e.entry.Action = ActionRebaseFailed

\* -------------------------------------------------------------------- C8
\* C8: no step of RunWithActions changes an entry whose action is not
\* WouldMerge/WouldRebase, a repository's name, skip flag or skip reason, the
\* number or order of repositories and of their PRs, or the counts
\* ReposProcessed, ReposSkipped and CandidatesFound.
C8_ExecuteFrame ==
    [][ InRunWithActions =>
          /\ DOMAIN result'.Repositories = DOMAIN result.Repositories
          /\ \A r \in DOMAIN result.Repositories :
                LET old == result.Repositories[r]
                    new == result'.Repositories[r]
                IN  /\ new.Name = old.Name
                    /\ new.Skipped = old.Skipped
                    /\ new.SkipReason = old.SkipReason
                    /\ DOMAIN new.PullRequests = DOMAIN old.PullRequests
                    /\ \A k \in DOMAIN old.PullRequests :
                          /\ new.PullRequests[k].Number = old.PullRequests[k].Number
                          /\ new.PullRequests[k].HeadBranch = old.PullRequests[k].HeadBranch
                          /\ old.PullRequests[k].Action \notin PendingActions
                                => new.PullRequests[k] = old.PullRequests[k]
                    /\ old.Skipped => new = old
          /\ result'.Summary.ReposProcessed = result.Summary.ReposProcessed
          /\ result'.Summary.ReposSkipped = result.Summary.ReposSkipped
          /\ result'.Summary.CandidatesFound = result.Summary.CandidatesFound
      ]_vars

\* RunWithActions has returned from a plan that held a skipped repository, a
\* skipped PR and an executed action.
C8_Witness ==
    /\ config.Confirm
    /\ pc = "WriteResult"
    /\ ~NoMutatingCall
    /\ \E r \in DOMAIN result.Repositories : result.Repositories[r].Skipped
    /\ \E e \in AllEntries : e.entry.Action \in SkipActions
    /\ result.Summary.CandidatesFound = 2

\* -------------------------------------------------------------------- C9
\* Some recorded entry still plans a merge or a rebase.
SomePendingEntry(res) == \E e \in EntriesOf(res) : e.entry.Action \in PendingActions

\* C9: when a confirm-mode Run returns, main.run goes to the prompt exactly
\* if some recorded entry is WouldMerge or WouldRebase; otherwise it goes
\* straight to writing the unchanged scan result.  The prompt and
\* RunWithActions are entered in no other way.
C9_PromptIffPending ==
    [][ /\ (pc = "Loop" /\ pc' \notin { "Loop", "Repo" } /\ config.Confirm) =>
              IF SomePendingEntry(result)
              THEN pc' = "Prompt"
              ELSE pc' = "WriteResult" /\ result' = result /\ calls' = calls
        /\ (pc' = "Prompt") => (pc = "Loop" /\ config.Confirm /\ SomePendingEntry(result))
        /\ (pc' = "RunWithActions") => (pc = "Prompt" /\ SomePendingEntry(result))
      ]_vars

\* A confirm-mode run ended without a prompt: it recorded entries, none of
\* them pending, and reports the scan result.
C9_Witness ==
    /\ config.Confirm
    /\ pc = "WriteResult"
    /\ NoMutatingCall
    /\ EntriesOf(result) # {}
    /\ ~SomePendingEntry(result)

\* -------------------------------------------------------------------- C11
\* The outcome recorded for the one candidate of the evaluator specification.
Outcome == repoResult.PullRequests[1]

Evaluated == pc \in { "Evaluated", "Processed" }

\* The check-status gate lets the PR through to the branch-status gate.
PassesCheckGate ==
    /\ ~answers.csErr
    /\ \/ answers.cs.NoChecks
       \/ config.Rebase /\ ~config.Merge
       \/ answers.cs.AllPassing /\ ~answers.cs.Pending

CheckGateSkips ==
    { ActionSkipAPIError, ActionSkipChecksPending, ActionSkipChecksFailing }

\* C11 as stated: a PR whose branch has a merge conflict gets Skip(Conflict)
\* for every flag combination and whatever its check status.
C11_ConflictAlwaysSkipConflict ==
    (Evaluated /\ ~answers.csErr /\ ~answers.bsErr /\ answers.bs.HasConflict)
        => Outcome.Action = ActionSkipConflict

\* C11 amended: a PR whose branch has a merge conflict gets Skip(Conflict)
\* for every combination of the rebase, merge and skip-rebase flags once it
\* is through the check-status gate; a PR the check-status gate stops gets
\* that gate's skip, its branch status is not fetched, and in neither case
\* is a mutating call made.
C11_ConflictSkipsPastCheckGate ==
    (Evaluated /\ ~answers.bsErr /\ answers.bs.HasConflict) =>
        /\ NoMutatingCall
        /\ IF PassesCheckGate
           THEN /\ Outcome.Action = ActionSkipConflict
                /\ Outcome.SkipReason = ReasonConflict
                /\ \E k \in CallIndices :
                      calls[k].op = "GetBranchStatus" /\ calls[k].branch.HasConflict
           ELSE /\ Outcome.Action \in CheckGateSkips
                /\ \A k \in CallIndices : calls[k].op # "GetBranchStatus"

\* Under merge with skip-rebase a behind, conflicting PR with passing checks
\* was skipped for its conflict by the single-phase evaluator.
C11_Witness ==
    /\ pc = "Processed"
    /\ config.Merge /\ config.SkipRebase
    /\ ~answers.csErr /\ answers.cs.AllPassing /\ ~answers.cs.Pending /\ ~answers.cs.NoChecks
    /\ ~answers.bsErr /\ answers.bs.HasConflict /\ answers.bs.BehindBy > 0
    /\ Outcome.Action = ActionSkipConflict

\* -------------------------------------------------------------------- C12
\* C12: a check status with noChecks set never yields Skip(ChecksPending) or
\* Skip(ChecksFailing), whatever its allPassing and pending flags say: the
\* branch status is fetched next, and a conflict-free, up-to-date PR with no
\* checks is planned for a merge (scan) or merged (single phase) when merge
\* is enabled, its reason recording "no checks configured".
C12_NoChecksIsNeutralPass ==
    (Evaluated /\ ~answers.csErr /\ answers.cs.NoChecks) =>
        /\ Outcome.Action \notin { ActionSkipChecksPending, ActionSkipChecksFailing }
        /\ \E k \in CallIndices : calls[k].op = "GetBranchStatus"
        /\ (~answers.bsErr /\ ~answers.bs.HasConflict /\ answers.bs.UpToDate
                /\ config.Merge) =>
              IF pc = "Evaluated"
              THEN /\ Outcome.Action = ActionWouldMerge
                   /\ Outcome.Reason.checks = "no checks configured"
                   /\ NoMutatingCall
              ELSE /\ Outcome.Action =
                        IF answers.mErr THEN ActionMergeFailed ELSE ActionMerged
                   /\ ~answers.mErr => Outcome.Reason.checks = "no checks configured"
                   /\ { calls[k].op : k \in { n \in CallIndices : IsMutating(calls[n]) } }
                          = { "MergePullRequest" }

\* A PR whose check status has noChecks and pending both set and allPassing
\* unset, conflict-free and up to date, was merged.
C12_Witness ==
    /\ pc = "Processed"
    /\ config.Merge
    /\ ~answers.csErr
    /\ answers.cs.NoChecks /\ answers.cs.Pending /\ ~answers.cs.AllPassing
    /\ Outcome.Action = ActionMerged

\* -------------------------------------------------------------------- C13
\* The entries recorded for PR pr of repository repo.
EntriesFor(repo, pr) ==
    { e \in AllEntries : e.repo = repo /\ e.entry.Number = pr }

\* The branch-status answers that say: no conflict, behind the base.
BehindAnswers ==
    { k \in CallIndices :
        /\ calls[k].op = "GetBranchStatus" /\ ~calls[k].err
        /\ ~calls[k].branch.HasConflict /\ ~calls[k].branch.UpToDate }

\* The run is past every scan and every execution.
RunOver == pc = "WriteResult"

\* C13: in rebase-only mode no PR is skipped for pending or failing checks,
\* and a conflict-free PR that is behind its base is WouldRebase as long as
\* it has only been scanned and Rebased or RebaseFailed once it has been
\* executed (at once in a single-phase run, by RunWithActions after a scan),
\* whatever its check status.
C13_RebaseOnlyToleratesChecks ==
    (config.Rebase /\ ~config.Merge) =>
        /\ \A e \in AllEntries :
              e.entry.Action \notin { ActionSkipChecksPending, ActionSkipChecksFailing }
        /\ \A b \in BehindAnswers :
              LET muts == MutatingCallsFor(calls[b].repo, calls[b].pr)
              IN  /\ EntriesFor(calls[b].repo, calls[b].pr) # {}
                  /\ \A e \in EntriesFor(calls[b].repo, calls[b].pr) :
                        IF muts = {}
                        THEN /\ e.entry.Action = ActionWouldRebase
                             /\ config.Confirm /\ ~RunOver
                        ELSE /\ Cardinality(muts) = 1
                             /\ \A k \in muts :
                                   /\ calls[k].op \in { "UpdateBranch", "PostRebaseComment" }
                                   /\ e.entry.Action =
                                        IF calls[k].err THEN ActionRebaseFailed
                                        ELSE ActionRebased

\* A finished rebase-only run rebased a PR whose checks were pending and
\* another whose checks were failing.
C13_Witness ==
    /\ RunOver
    /\ config.Rebase /\ ~config.Merge
    /\ \E a, b \in CallIndices :
          /\ calls[a].op = "GetCheckStatus" /\ ~calls[a].err /\ calls[a].check.Pending
          /\ calls[b].op = "GetCheckStatus" /\ ~calls[b].err
          /\ ~calls[b].check.Pending /\ ~calls[b].check.AllPassing /\ ~calls[b].check.NoChecks
          /\ \E e \in EntriesFor(calls[a].repo, calls[a].pr) : e.entry.Action = ActionRebased
          /\ \E e \in EntriesFor(calls[b].repo, calls[b].pr) :
                e.entry.Action \in { ActionRebased, ActionRebaseFailed }

\* -------------------------------------------------------------------- C14
\* The check status fetched for the PR says its checks pass.
ChecksPassFor(repo, pr) ==
    \E a \in CallIndices :
        /\ calls[a].op = "GetCheckStatus" /\ calls[a].repo = repo /\ calls[a].pr = pr
        /\ ~calls[a].err /\ calls[a].check.AllPassing

\* C14: with merge and skip-rebase set and rebase unset, a PR whose checks
\* pass, that has no conflict and is behind its base is WouldMerge as long
\* as it has only been scanned and Merged or MergeFailed once executed, by
\* one MergePullRequest call; UpdateBranch and PostRebaseComment are never
\* called for it.
C14_SkipRebaseMergesBehind ==
    (config.Merge /\ config.SkipRebase /\ ~config.Rebase) =>
        \A b \in BehindAnswers :
            ChecksPassFor(calls[b].repo, calls[b].pr) =>
              LET muts == MutatingCallsFor(calls[b].repo, calls[b].pr)
              IN  /\ EntriesFor(calls[b].repo, calls[b].pr) # {}
                  /\ \A k \in muts : calls[k].op = "MergePullRequest"
                  /\ \A e \in EntriesFor(calls[b].repo, calls[b].pr) :
                        IF muts = {}
                        THEN /\ e.entry.Action = ActionWouldMerge
                             /\ config.Confirm /\ ~RunOver
                        ELSE /\ Cardinality(muts) = 1
                             /\ \A k \in muts :
                                   e.entry.Action =
                                      IF calls[k].err THEN ActionMergeFailed
                                      ELSE ActionMerged

\* A finished run under merge with skip-rebase merged a PR that was behind
\* with passing checks, and another merge failed.
C14_Witness ==
    /\ RunOver
    /\ config.Merge /\ config.SkipRebase /\ ~config.Rebase
    /\ \E b \in BehindAnswers :
          /\ ChecksPassFor(calls[b].repo, calls[b].pr)
          /\ \E e \in EntriesFor(calls[b].repo, calls[b].pr) :
                e.entry.Action = ActionMerged
    /\ \E e \in AllEntries : e.entry.Action = ActionMergeFailed

\* -------------------------------------------------------------------- C15
\* C15: with rebase unset and skip-rebase not in effect (it needs merge), a
\* conflict-free PR with passing checks that is behind its base by k commits
\* is recorded as Skip(BranchBehind) with a reason that states k commits
\* behind, and no mutating call is ever made for it.
C15_BehindSkippedWithCount ==
    (~config.Rebase /\ ~(config.SkipRebase /\ config.Merge)) =>
        \A b \in BehindAnswers :
            ChecksPassFor(calls[b].repo, calls[b].pr) =>
              /\ MutatingCallsFor(calls[b].repo, calls[b].pr) = {}
              /\ EntriesFor(calls[b].repo, calls[b].pr) # {}
              /\ \A e \in EntriesFor(calls[b].repo, calls[b].pr) :
                    /\ e.entry.Action = ActionSkipBranchBehind
                    /\ e.entry.SkipReason = ReasonBranchBehind
                    /\ e.entry.Reason.msg =
                          "branch is %d commits behind base (use --rebase to update)"
                    /\ e.entry.Reason.behind = calls[b].branch.BehindBy
                    /\ e.entry.Reason.behind > 0

\* A finished merge-only run skipped a PR that was behind and merged another.
C15_Witness ==
    /\ RunOver
    /\ config.Merge /\ ~config.Rebase /\ ~config.SkipRebase
    /\ \E b \in BehindAnswers :
          /\ ChecksPassFor(calls[b].repo, calls[b].pr)
          /\ \E e \in EntriesFor(calls[b].repo, calls[b].pr) :
                e.entry.Action = ActionSkipBranchBehind
    /\ \E e \in AllEntries : e.entry.Action = ActionMerged

\* -------------------------------------------------------------------- C16
RebaseOps == { "UpdateBranch", "PostRebaseComment" }

\* The one call a rebase of the head branch is made by.
RebaseOpFor(headBranch) ==
    IF Len(headBranch) >= 1 /\ headBranch[1] = "dependabot/"
    THEN "PostRebaseComment" ELSE "UpdateBranch"

\* C16: every executed rebase (an entry that is Rebased or RebaseFailed) was
\* made by exactly one mutating call for its PR: PostRebaseComment when the
\* head branch starts with "dependabot/", UpdateBranch otherwise; and every
\* UpdateBranch or PostRebaseComment call in the log is the one call of such
\* an entry.  Single-phase runs and RunWithActions alike.
C16_RebaseCallByHeadBranch ==
    /\ \A e \in AllEntries :
          e.entry.Action \in { ActionRebased, ActionRebaseFailed } =>
              LET muts == MutatingCallsFor(e.repo, e.entry.Number)
              IN  /\ Cardinality(muts) = 1
                  /\ \A k \in muts : calls[k].op = RebaseOpFor(e.entry.HeadBranch)
    /\ \A k \in CallIndices :
          calls[k].op \in RebaseOps =>
              /\ MutatingCallsFor(calls[k].repo, calls[k].pr) = { k }
              /\ EntriesFor(calls[k].repo, calls[k].pr) # {}
              /\ \A e \in EntriesFor(calls[k].repo, calls[k].pr) :
                    /\ e.entry.Action \in { ActionRebased, ActionRebaseFailed }
                    /\ calls[k].op = RebaseOpFor(e.entry.HeadBranch)

\* RunWithActions has rebased a dependabot branch by comment and a branch
\* that only contains "dependabot/" by a branch update.
C16_Witness ==
    /\ RunOver
    /\ config.Confirm
    /\ \E k \in CallIndices : calls[k].op = "PostRebaseComment"
    /\ \E k \in CallIndices : calls[k].op = "UpdateBranch"

\* -------------------------------------------------------------------- C17
\* The terminal failure that matches a mutating call.
FailureFor(op) ==
    IF op = "MergePullRequest" THEN ActionMergeFailed ELSE ActionRebaseFailed

\* Every failed mutating call is on record as the failure of its PR, with
\* the collaborator's error text in the reason.
MutationFailuresRecorded ==
    \A k \in CallIndices :
        (IsMutating(calls[k]) /\ calls[k].err) =>
            /\ EntriesFor(calls[k].repo, calls[k].pr) # {}
            /\ \A e \in EntriesFor(calls[k].repo, calls[k].pr) :
                  /\ e.entry.Action = FailureFor(calls[k].op)
                  /\ e.entry.Reason.err

\* C17: a step in which a mutating call fails records MergeFailed (merge) or
\* RebaseFailed (branch update, rebase comment) with the error text for that
\* PR, stays in the loop it is in and moves on to the next PR (and from the
\* last PR to the next repository); the failure stays on record, and the run
\* ends with one entry for every candidate listed.  Single-phase runs and
\* RunWithActions alike.
C17_MutationErrorBecomesFailure ==
    [][ /\ \A k \in NewCalls :
              (IsMutating(calls'[k]) /\ calls'[k].err) =>
                  /\ pc \in { "Repo", "Exec" }
                  /\ pc' = pc
                  /\ pc = "Repo" =>
                        /\ ~config.Confirm
                        /\ prs' = Tail(prs)
                        /\ repoResult'.PullRequests[Len(repoResult'.PullRequests)].Action
                              = FailureFor(calls'[k].op)
                  /\ pc = "Exec" =>
                        /\ i' = i /\ j' = j + 1
                        /\ result'.Repositories[i].PullRequests[j].Action
                              = FailureFor(calls'[k].op)
        /\ MutationFailuresRecorded'
        /\ pc' = "WriteResult" => Cardinality(EntriesOf(result')) = listed'
      ]_vars

\* A finished run in which a merge failed for the first PR of a repository
\* and the PR after it was merged.
C17_Witness ==
    /\ RunOver
    /\ \E k, n \in CallIndices :
          /\ k < n
          /\ calls[k].op = "MergePullRequest" /\ calls[k].err
          /\ calls[n].op = "MergePullRequest" /\ ~calls[n].err
          /\ calls[n].repo = calls[k].repo
          /\ \E e \in EntriesFor(calls[n].repo, calls[n].pr) : e.entry.Action = ActionMerged

\* -------------------------------------------------------------------- C18
EvaluationOps == { "GetCheckStatus", "GetBranchStatus" }

\* Every PR for which a check-status or branch-status retrieval failed is on
\* record as Skip(APIError) and has had no mutating call.
EvaluationFailuresRecorded ==
    \A k \in CallIndices :
        (calls[k].op \in EvaluationOps /\ calls[k].err) =>
            /\ MutatingCallsFor(calls[k].repo, calls[k].pr) = {}
            /\ EntriesFor(calls[k].repo, calls[k].pr) # {}
            /\ \A e \in EntriesFor(calls[k].repo, calls[k].pr) :
                  /\ e.entry.Action = ActionSkipAPIError
                  /\ e.entry.SkipReason = ReasonAPIError
                  /\ e.entry.Reason.err

\* C18: a step in which GetCheckStatus or GetBranchStatus fails records
\* Skip(APIError) for that PR, makes no further call for it, and moves on to
\* the next PR of the repository; the PR keeps that outcome and never gets a
\* mutating call, in the scan, in a single-phase run and in RunWithActions.
C18_EvaluationErrorSkipsPR ==
    [][ /\ \A k \in NewCalls :
              (calls'[k].op \in EvaluationOps /\ calls'[k].err) =>
                  /\ pc = "Repo" /\ pc' = "Repo"
                  /\ prs' = Tail(prs)
                  /\ k = Len(calls')
                  /\ LET entry == repoResult'.PullRequests[Len(repoResult'.PullRequests)]
                     IN  /\ Len(repoResult'.PullRequests) = Len(repoResult.PullRequests) + 1
                         /\ entry.Number = calls'[k].pr
                         /\ entry.Action = ActionSkipAPIError
        /\ EvaluationFailuresRecorded'
      ]_vars

\* A finished run in which the branch status of one PR could not be fetched
\* and the PR listed after it was merged or rebased.
C18_Witness ==
    /\ RunOver
    /\ \E k, n \in CallIndices :
          /\ k < n
          /\ calls[k].op = "GetBranchStatus" /\ calls[k].err
          /\ IsMutating(calls[n]) /\ ~calls[n].err
          /\ calls[n].repo = calls[k].repo

\* -------------------------------------------------------------------- C19
\* The record a repository whose pull requests could not be listed gets.
ListingFailureRecord(name) ==
    [Name |-> name, PullRequests |-> << >>, Skipped |-> TRUE, SkipReason |-> "API error"]

\* Every repository whose ListPullRequests call failed is on record as a
\* repository-level skip for an API error with no PR outcome, and no
\* evaluation or mutating call has been made for it.
ListingFailuresRecorded ==
    \A k \in CallIndices :
        (calls[k].op = "ListPullRequests" /\ calls[k].err) =>
            /\ \E r \in DOMAIN result.Repositories :
                  result.Repositories[r] = ListingFailureRecord(calls[k].repo)
            /\ \A r \in DOMAIN result.Repositories :
                  result.Repositories[r].Name = calls[k].repo
                      => result.Repositories[r] = ListingFailureRecord(calls[k].repo)
            /\ \A n \in CallIndices :
                  calls[n].repo = calls[k].repo
                      => calls[n].op \notin (EvaluationOps \cup MutatingOps)

\* C19: a step in which ListPullRequests fails appends the repository to the
\* result as a skip for an API error with zero PR outcomes, makes no other
\* call, and moves on to the next repository; the record stays as it is and
\* the repository never gets an evaluation or mutating call, in the scan and
\* in a later RunWithActions.
C19_ListingErrorSkipsRepository ==
    [][ /\ \A k \in NewCalls :
              (calls'[k].op = "ListPullRequests" /\ calls'[k].err) =>
                  /\ pc = "Loop" /\ pc' = "Loop"
                  /\ NewCalls = { k }
                  /\ calls'[k].repo = repos[i].Name
                  /\ i' = i + 1
                  /\ repos' = repos
                  /\ result'.Repositories =
                        Append(result.Repositories, ListingFailureRecord(repos[i].Name))
        /\ ListingFailuresRecorded'
      ]_vars

\* RunWithActions has returned from a plan in which the pull requests of the
\* first repository could not be listed and a PR of the second was executed.
C19_Witness ==
    /\ RunOver
    /\ config.Confirm
    /\ Len(result.Repositories) = 2
    /\ result.Repositories[1] = ListingFailureRecord(1)
    /\ \E k \in CallIndices : IsMutating(calls[k]) /\ calls[k].repo = 2

\* -------------------------------------------------------------------- C20
\* C20 as stated: no collaborator error aborts the run; also when
\* ListRepositories fails, Run returns no error.
C20_NoCollaboratorErrorAborts ==
    \A k \in CallIndices : calls[k].err => pc # "Failed"

\* C20 amended: no error of ListPullRequests, GetCheckStatus, GetBranchStatus
\* or a mutating call aborts the run: the step stays in its loop and the
\* failure is on record as a repository skip, a PR skip or a terminal
\* failure.  Only a failed ListRepositories makes Run return an error: it is
\* the first call of the run, no repository has been touched, and no
\* RunResult is returned.
C20_OnlyRepositoryListingAborts ==
    [][ /\ \A k \in NewCalls :
              calls'[k].err =>
                  IF calls'[k].op = "ListRepositories"
                  THEN /\ pc = "Run" /\ pc' = "Failed"
                       /\ k = 1 /\ Len(calls') = 1
                       /\ result' = result
                       /\ result.Repositories = << >>
                  ELSE /\ pc' = pc
                       /\ pc \in { "Loop", "Repo", "Exec" }
        /\ pc' = "Failed" =>
              /\ pc = "Run"
              /\ \E k \in NewCalls : calls'[k].op = "ListRepositories" /\ calls'[k].err
        /\ pc # "Failed"
        /\ ListingFailuresRecorded'
        /\ EvaluationFailuresRecorded'
        /\ MutationFailuresRecorded'
      ]_vars

\* A run ended with a RunResult although a listing of pull requests, a
\* status retrieval and a mutating call had each failed.
C20_Witness ==
    /\ RunOver
    /\ \E k \in CallIndices : calls[k].op = "ListPullRequests" /\ calls[k].err
    /\ \E k \in CallIndices : calls[k].op \in EvaluationOps /\ calls[k].err
    /\ \E k \in CallIndices : IsMutating(calls[k]) /\ calls[k].err

\* -------------------------------------------------------------------- C21
RepoIndices == DOMAIN result.Repositories

ProcessedRepos == { r \in RepoIndices : ~result.Repositories[r].Skipped }

LimitSkippedRepos ==
    { r \in RepoIndices :
        /\ result.Repositories[r].Skipped
        /\ result.Repositories[r].SkipReason = "repo limit reached" }

ListingFailedRepos ==
    { r \in RepoIndices :
        /\ result.Repositories[r].Skipped
        /\ result.Repositories[r].SkipReason = "API error" }

\* Run's loop over the repositories is over.
RunEnded == pc \notin { "Run", "Failed", "Loop", "Repo" } \/ (pc = "Loop" /\ i > Len(repos))

Min(a, b) == IF a <= b THEN a ELSE b

\* C21 as stated: with repoLimit = N > 0 and M > N repositories past the
\* filter, a finished Run reports exactly N repositories processed and
\* exactly M - N skipped with reason "repo limit reached".
C21_ExactlyLimitProcessed ==
    (RunEnded /\ config.RepoLimit > 0 /\ Len(repos) > config.RepoLimit) =>
        /\ Cardinality(ProcessedRepos) = config.RepoLimit
        /\ result.Summary.ReposProcessed = config.RepoLimit
        /\ Cardinality(LimitSkippedRepos) = Len(repos) - config.RepoLimit

\* C21 amended: with repoLimit = N > 0 and M repositories past the filter, a
\* repository whose PR listing fails is skipped as an API error and does not
\* count toward N; the repositories recorded after the N-th processed one,
\* and only those, are skipped with reason "repo limit reached".  So with F
\* listing failures among the repositories recorded before the limit was
\* reached, a finished Run reports min(N, M - F) processed, F API-error
\* skips and the rest as limit skips: exactly N and M - N when M > N and no
\* listing fails.
C21_LimitCountsProcessedOnly ==
    (config.RepoLimit > 0 /\ pc \notin { "Run", "Failed" }) =>
        LET N == config.RepoLimit
            processedBefore(r) == Cardinality({ q \in ProcessedRepos : q < r })
        IN  /\ Cardinality(ProcessedRepos) <= N
            /\ \A r \in RepoIndices :
                  /\ result.Repositories[r].Name = repos[r].Name
                  /\ (r \in LimitSkippedRepos) <=> (processedBefore(r) = N)
                  /\ r \in ProcessedRepos \cup LimitSkippedRepos \cup ListingFailedRepos
            /\ RunEnded =>
                  LET M == Len(repos)
                      F == Cardinality(ListingFailedRepos)
                  IN  /\ Len(result.Repositories) = M
                      /\ Cardinality(ProcessedRepos) = Min(N, M - F)
                      /\ result.Summary.ReposProcessed = Cardinality(ProcessedRepos)
                      /\ Cardinality(LimitSkippedRepos)
                            = M - F - Cardinality(ProcessedRepos)
                      /\ result.Summary.ReposSkipped
                            = F + Cardinality(LimitSkippedRepos)
                      /\ (F = 0 /\ M > N) =>
                            /\ Cardinality(ProcessedRepos) = N
                            /\ Cardinality(LimitSkippedRepos) = M - N

\* A finished run with a limit of one over two repositories processed the
\* first and skipped the second for the limit.
C21_Witness ==
    /\ RunEnded
    /\ config.RepoLimit = 1
    /\ Len(repos) = 2
    /\ ProcessedRepos = { 1 }
    /\ LimitSkippedRepos = { 2 }

\* -------------------------------------------------------------------- C22
\* The repositories recorded so far that Run skipped for the limit have no
\* pull request outcomes, were never named in a collaborator call, and are
\* followed only by repositories skipped for the limit.
LimitSkipsUntouched ==
    \A r \in LimitSkippedRepos :
        /\ result.Repositories[r].PullRequests = << >>
        /\ \A k \in DOMAIN calls : calls[k].repo # result.Repositories[r].Name
        /\ \A q \in RepoIndices : q > r => q \in LimitSkippedRepos

\* C22: once the repository limit is reached, Run makes no collaborator call
\* for any further repository: each one is recorded as skipped with reason
\* "repo limit reached" and without pull request outcomes, the limit stays
\* reached, and no later step (the action phase included) calls the
\* collaborator for such a repository.
C22_NoCallsPastRepoLimit ==
    [][ /\ (pc = "Loop" /\ i <= Len(repos) /\ RepoLimitReached) =>
              /\ calls' = calls
              /\ pc' = "Loop"
              /\ i' = i + 1
              /\ RepoLimitReached'
              /\ result'.Repositories = Append(result.Repositories,
                    [Name |-> repos[i].Name, PullRequests |-> << >>,
                     Skipped |-> TRUE, SkipReason |-> "repo limit reached"])
        /\ LimitSkipsUntouched' ]_vars

\* A confirmed action phase has run to its end over a result whose second
\* repository was skipped for the limit, after calls for the first one.
C22_Witness ==
    /\ pc = "WriteResult"
    /\ config.Confirm
    /\ LimitSkippedRepos = { 2 }
    /\ \E k \in DOMAIN calls : calls[k].repo = 1 /\ calls[k].op \in MutatingOps

\* -------------------------------------------------------------------- C26
\* The number of PR entries of the result whose action is in the set as.
CountActions(as) == Cardinality({ e \in EntriesOf(result) : e.entry.Action \in as })

\* Run has returned, or RunWithActions has: main.run holds a finished result.
ResultReturned == pc \in { "Prompt", "RunWithActions", "Cancelled", "WriteResult" }

\* C26: at the end of Run and at the end of RunWithActions, each summary
\* outcome counter equals the number of PR entries of the result whose
\* action falls in its category, so the counters sum to CandidatesFound:
\* every outcome is counted exactly once.
C26_CountersMatchEntries ==
    ResultReturned =>
        LET s == result.Summary
        IN  /\ s.MergedSuccess  = CountActions({ ActionMerged })
            /\ s.MergeFailed    = CountActions({ ActionMergeFailed })
            /\ s.RebasedSuccess = CountActions({ ActionRebased })
            /\ s.RebaseFailed   = CountActions({ ActionRebaseFailed })
            /\ s.WouldMerge     = CountActions({ ActionWouldMerge })
            /\ s.WouldRebase    = CountActions({ ActionWouldRebase })
            /\ s.ReadyToMerge   = CountActions({ ActionReadyMerge })
            /\ s.Skipped        = CountActions(SkipActions)
            /\ s.MergedSuccess + s.MergeFailed + s.RebasedSuccess + s.RebaseFailed
                 + s.WouldMerge + s.WouldRebase + s.ReadyToMerge + s.Skipped
                 = s.CandidatesFound

\* -------------------------------------------------------------------- C27
\* The number of PR entries of the result that carry skip reason r.
CountReason(r) == Cardinality({ e \in EntriesOf(result) : e.entry.SkipReason = r })

RECURSIVE SumOver(_, _)
SumOver(f, S) ==
    IF S = {} THEN 0
    ELSE LET x == CHOOSE y \in S : TRUE IN f[x] + SumOver(f, S \ { x })

\* C27: at the end of Run and at the end of RunWithActions, every PR entry
\* with a skip action carries a non-empty SkipReason of the fixed set, no
\* other entry carries one, and for each reason the histogram value equals
\* the number of entries with that SkipReason, so the histogram adds up to
\* Skipped.
C27_HistogramMatchesReasons ==
    ResultReturned =>
        /\ \A e \in EntriesOf(result) :
              IF IsSkipAction(e.entry.Action)
              THEN e.entry.SkipReason \in SkipReasons /\ e.entry.SkipReason # ReasonNone
              ELSE e.entry.SkipReason = ReasonNone
        /\ DOMAIN result.Summary.SkippedByReason = SkipReasons
        /\ \A r \in SkipReasons : result.Summary.SkippedByReason[r] = CountReason(r)
        /\ SumOver(result.Summary.SkippedByReason, SkipReasons) = result.Summary.Skipped

\* RunWithActions has returned a result that holds an executed entry next to
\* a skipped one.
C27_Witness ==
    /\ pc = "WriteResult"
    /\ config.Confirm
    /\ CountActions({ ActionMerged, ActionRebased }) > 0
    /\ result.Summary.Skipped > 0
    /\ \E r \in SkipReasons : result.Summary.SkippedByReason[r] > 0

\* -------------------------------------------------------------------- C28
\* output.Action: every outcome a PR entry can carry.
Outcomes == ScanActions \cup TerminalActions

\* The PR numbers of a sequence of pull requests or of PR entries, in order.
Numbers(s) == [k \in DOMAIN s |-> s[k].Number]

\* The recorded results: actions come from the Outcome set, no PR number
\* occurs twice within a repository, a skipped repository has no entries,
\* and a returned result counts as CandidatesFound exactly its entries,
\* which are as many as the candidates the listings gave.
ResultsWellFormed ==
    /\ \A r \in RepoIndices :
          LET ps == result.Repositories[r].PullRequests
          IN  /\ \A k \in DOMAIN ps : ps[k].Action \in Outcomes
              /\ \A k, l \in DOMAIN ps : ps[k].Number = ps[l].Number => k = l
              /\ result.Repositories[r].Skipped => ps = << >>
    /\ ResultReturned =>
          /\ result.Summary.CandidatesFound = Cardinality(EntriesOf(result))
          /\ result.Summary.CandidatesFound = listed

\* C28: every candidate PR of every processed repository appears exactly
\* once in that repository's results, with exactly one action of the Outcome
\* set, and CandidatesFound equals the number of such entries.  Step by
\* step: a repository starts with no entries; each turn of the loop moves
\* the first remaining candidate to the end of the entries; the repository
\* is recorded only when no candidate remains, with exactly these entries;
\* and RunWithActions neither adds, drops nor reorders an entry.
C28_EveryCandidateOnce ==
    [][ /\ (pc = "Loop" /\ pc' = "Repo") =>
              /\ repoResult'.PullRequests = << >>
              /\ ~repoResult'.Skipped
              /\ \A k, l \in DOMAIN prs' : prs'[k].Number = prs'[l].Number => k = l
        /\ (pc = "Repo" /\ pc' = "Repo") =>
              /\ prs # << >>
              /\ prs' = Tail(prs)
              /\ Numbers(repoResult'.PullRequests)
                    = Append(Numbers(repoResult.PullRequests), Head(prs).Number)
        /\ (pc = "Repo" /\ pc' # "Repo") =>
              /\ prs = << >>
              /\ result'.Repositories = Append(result.Repositories, repoResult)
        /\ InRunWithActions =>
              /\ DOMAIN result'.Repositories = DOMAIN result.Repositories
              /\ \A r \in RepoIndices :
                    Numbers(result'.Repositories[r].PullRequests)
                        = Numbers(result.Repositories[r].PullRequests)
        /\ ResultsWellFormed' ]_vars

\* A single-phase run has recorded two candidates of one repository, one of
\* them skipped and one carried out.
C28_Witness ==
    /\ pc = "WriteResult"
    /\ ~config.Confirm
    /\ \E r \in RepoIndices :
          /\ Len(result.Repositories[r].PullRequests) = 2
          /\ IsSkipAction(result.Repositories[r].PullRequests[1].Action)
          /\ result.Repositories[r].PullRequests[2].Action \in TerminalActions
    /\ result.Summary.CandidatesFound = 2

\* -------------------------------------------------------------------- C29
\* The place of a call within the evaluation of one pull request.
OpRank(op) ==
    CASE op \in { "ListRepositories", "ListPullRequests" } -> 0
      [] op = "GetCheckStatus"  -> 1
      [] op = "GetBranchStatus" -> 2
      [] op \in MutatingOps     -> 3

\* Call a comes strictly before call b in the order by repository listing
\* position, then PR listing position, then place within the evaluation.
\* Repositories are named, and pull requests numbered, by listing position;
\* a listing call carries PR number 0.
CallBefore(a, b) ==
    \/ a.repo < b.repo
    \/ a.repo = b.repo /\ a.pr < b.pr
    \/ a.repo = b.repo /\ a.pr = b.pr /\ OpRank(a.op) < OpRank(b.op)

\* The recorded results follow the listing order.
ResultsInListingOrder ==
    /\ \A r, q \in RepoIndices :
          r < q => result.Repositories[r].Name < result.Repositories[q].Name
    /\ \A r \in RepoIndices :
          LET ps == result.Repositories[r].PullRequests
          IN  \A k, l \in DOMAIN ps : k < l => ps[k].Number < ps[l].Number
    /\ \A k, l \in DOMAIN repoResult.PullRequests :
          k < l => repoResult.PullRequests[k].Number < repoResult.PullRequests[l].Number

\* C29: in a single-phase run the collaborator calls are totally ordered by
\* repository listing position and then PR listing position: every
\* evaluation and mutation call for one PR is made before any call for the
\* next PR, every call for one repository before the PR-listing call of the
\* next, within one PR the check status is fetched before the branch status
\* and both before the mutation, and the results are recorded in that same
\* order, each PR's entry in the very step that makes its calls, after the
\* entries of all earlier PRs and repositories.
C29_SinglePhaseSequential ==
    [][ ~config.Confirm =>
          /\ \A k, l \in DOMAIN calls' : k < l => CallBefore(calls'[k], calls'[l])
          /\ ResultsInListingOrder'
          /\ (pc = "Repo" /\ prs # << >>) =>
                /\ \A k \in NewCalls :
                      /\ calls'[k].repo = repoResult.Name
                      /\ calls'[k].pr = Head(prs).Number
                /\ repoResult'.PullRequests # << >>
                /\ repoResult'.PullRequests[Len(repoResult'.PullRequests)].Number
                      = Head(prs).Number
                /\ \A r \in RepoIndices :
                      result.Repositories[r].Name < repoResult.Name
                /\ \A k \in DOMAIN repoResult.PullRequests :
                      repoResult.PullRequests[k].Number < Head(prs).Number ]_vars

\* A single-phase run has merged or rebased a pull request of the first
\* repository, then listed the second repository and evaluated a pull
\* request there.
C29_Witness ==
    /\ ~config.Confirm
    /\ \E k, l, m \in DOMAIN calls :
          /\ k < l /\ l < m
          /\ calls[k].op \in MutatingOps /\ calls[k].repo = 1
          /\ calls[l].op = "ListPullRequests" /\ calls[l].repo = 2
          /\ calls[m].op = "GetBranchStatus" /\ calls[m].repo = 2

\* -------------------------------------------------------------------- C23
\* The repositories of the organization whose archived flag is set.
ArchivedNames == { org.repos[k].Name : k \in { q \in DOMAIN org.repos : org.repos[q].Archived } }

\* C23: a repository whose archived flag is true in the organization listing
\* never appears in RunResult.Repositories, neither as processed nor as
\* skip-reported, and no collaborator call is made for it.
C23_ArchivedNeverAppears ==
    /\ \A r \in RepoIndices : result.Repositories[r].Name \notin ArchivedNames
    /\ repoResult.Name \notin ArchivedNames
    /\ \A k \in DOMAIN calls : calls[k].repo \notin ArchivedNames

\* -------------------------------------------------------------------- C24
\* The positions of the listing l of repository repo that the claim says are
\* evaluated: not a draft, based on the repository's default branch, head
\* branch containing the configured pattern.
KeptPositions(l, repo) ==
    { k \in DOMAIN l :
        /\ ~l[k].Draft
        /\ l[k].BaseBranch = repo.DefaultBranch
        /\ Contains(l[k].HeadBranch, config.SourceBranch) }

\* The pull request numbers with an entry, recorded or being built, for the
\* repository named name.
EntryNumbers(name) == { e.entry.Number : e \in { x \in AllEntries : x.repo = name } }

\* The pull request numbers of repository name for which a check-status,
\* branch-status or mutating call was made.
CalledNumbers(name) ==
    { calls[k].pr : k \in { q \in DOMAIN calls :
        /\ calls[q].repo = name
        /\ calls[q].op \in { "GetCheckStatus", "GetBranchStatus" } \cup MutatingOps } }

\* C24: of the pull requests a repository lists, one is evaluated (it
\* appears in the results, and check-status, branch-status or mutating calls
\* are made for it) if and only if it is not a draft, its base branch is the
\* repository's default branch and its head branch contains the configured
\* pattern; the kept pull requests keep their listing order.  Pull requests
\* are numbered by listing position.  While the repository is being
\* processed only kept pull requests have entries or calls, in listing
\* order; once it is recorded, every kept one has both.
C24_EvaluatedIffCandidate ==
    \A r \in DOMAIN repos :
        LET repo == repos[r]
            kept == { org.pulls.listing[k].Number :
                        k \in KeptPositions(org.pulls.listing, repo) }
        IN  /\ EntryNumbers(repo.Name) \subseteq kept
            /\ CalledNumbers(repo.Name) \subseteq kept
            /\ CalledNumbers(repo.Name) \subseteq
                  EntryNumbers(repo.Name) \cup
                  (IF pc = "Repo" /\ prs # << >> THEN { Head(prs).Number } ELSE {})
            /\ (pc = "Repo" /\ repoResult.Name = repo.Name) =>
                  /\ \A k, l \in DOMAIN repoResult.PullRequests :
                        k < l => repoResult.PullRequests[k].Number
                                    < repoResult.PullRequests[l].Number
                  /\ \A k, l \in DOMAIN prs : k < l => prs[k].Number < prs[l].Number
                  /\ EntryNumbers(repo.Name) \cup { prs[k].Number : k \in DOMAIN prs } = kept
            /\ \A q \in RepoIndices :
                  (result.Repositories[q].Name = repo.Name
                     /\ ~result.Repositories[q].Skipped) =>
                      LET ps == result.Repositories[q].PullRequests
                      IN  /\ { ps[k].Number : k \in DOMAIN ps } = kept
                          /\ CalledNumbers(repo.Name) = kept
                          /\ \A k, l \in DOMAIN ps : k < l => ps[k].Number < ps[l].Number
                          /\ \A k \in DOMAIN ps :
                                ps[k].HeadBranch = org.pulls.listing[ps[k].Number].HeadBranch

\* A repository whose default branch is not the usual one was recorded with
\* the second pull request of its listing evaluated and the first left out,
\* the kept one's head branch holding the pattern in its middle.
C24_Witness ==
    /\ pc = "Loop"
    /\ Len(org.pulls.listing) = 2
    /\ org.repos[1].DefaultBranch # DefaultBranch
    /\ Len(result.Repositories) = 1
    /\ ~result.Repositories[1].Skipped
    /\ Numbers(result.Repositories[1].PullRequests) = << 2 >>
    /\ ~HasPrefix(org.pulls.listing[2].HeadBranch, config.SourceBranch)
    /\ CalledNumbers(1) = { 2 }

\* -------------------------------------------------------------------- C25
\* The repositories of the organization the allow-list lets through, in
\* listing order: those whose name equals an entry, all of them when the
\* list is empty.
RECURSIVE Allowed(_, _)
Allowed(listing, allow) ==
    IF listing = << >> THEN << >>
    ELSE IF allow = << >> \/ Head(listing).Name \in { allow[k] : k \in DOMAIN allow }
         THEN << Head(listing).Name >> \o Allowed(Tail(listing), allow)
         ELSE Allowed(Tail(listing), allow)

\* The names of a sequence of repositories or repository results, in order.
Names(s) == [k \in DOMAIN s |-> s[k].Name]

\* discoverRepositories has returned without error.
Discovered == pc \notin { "Main", "ConfigError", "Run", "Failed" }

ConfigInvalid ==
    \/ config.Org = ""
    \/ config.SourceBranch = << >>
    \/ config.Token = ""
    \/ config.Rebase /\ config.Merge
    \/ config.SkipRebase /\ config.Rebase
    \/ config.SkipRebase /\ ~config.Merge

\* C30: if the configuration is invalid (organization, branch pattern or
\* token missing, rebase together with merge, skip-rebase together with
\* rebase, or skip-rebase without merge) the program fails with an error
\* before any collaborator call is made: main.run's first step ends it in
\* the error, nothing follows that step, and no call of any kind is ever
\* logged under such a configuration.
C30_InvalidConfigFailsFirst ==
    [][ /\ (pc = "Main" /\ ConfigInvalid) =>
              /\ pc' = "ConfigError"
              /\ calls' = << >>
              /\ result' = result
        /\ pc # "ConfigError"
        /\ calls' # << >> => ~ConfigInvalid ]_vars

\* main.run has failed on --skip-rebase given without --merge, everything
\* else being in order and the organization holding repositories.
C30_Witness ==
    /\ pc = "ConfigError"
    /\ config.SkipRebase /\ ~config.Merge /\ ~config.Rebase
    /\ config.Org # "" /\ config.Token # "" /\ config.SourceBranch # << >>
    /\ org.repos # << >>
    /\ calls = << >>

\* -------------------------------------------------------------------- C31
\* C31: a PR gets the outcome "ready to merge" only if the check status
\* fetched for it is allPassing or noChecks and the branch status fetched
\* for it reports no conflict and a branch up to date with the default
\* branch.  Stated for the configurations Validate accepts.
C31_ReadyOnlyWhenReady ==
    Validate(config) = "" =>
        \A e \in AllEntries :
            e.entry.Action = ActionReadyMerge =>
                /\ \E a \in CallIndices :
                      /\ calls[a].op = "GetCheckStatus"
                      /\ calls[a].repo = e.repo /\ calls[a].pr = e.entry.Number
                      /\ ~calls[a].err
                      /\ calls[a].check.AllPassing \/ calls[a].check.NoChecks
                /\ \E b \in CallIndices :
                      /\ calls[b].op = "GetBranchStatus"
                      /\ calls[b].repo = e.repo /\ calls[b].pr = e.entry.Number
                      /\ ~calls[b].err
                      /\ ~calls[b].branch.HasConflict
                      /\ calls[b].branch.UpToDate

\* -------------------------------------------------------------------- C32
\* The answers the collaborator gave for PR pr of repository repo.
CheckAnswersFor(repo, pr) ==
    { k \in CallIndices :
        /\ calls[k].op = "GetCheckStatus" /\ ~calls[k].err
        /\ calls[k].repo = repo /\ calls[k].pr = pr }

BranchAnswersFor(repo, pr) ==
    { k \in CallIndices :
        /\ calls[k].op = "GetBranchStatus" /\ ~calls[k].err
        /\ calls[k].repo = repo /\ calls[k].pr = pr }

\* C32: the reason on a Merged outcome records the qualifiers of the
\* decision, in a single-phase run and after a confirm-mode RunWithActions
\* alike: "no checks configured" when the PR has no checks, and the behind
\* count with the note that rebase was skipped when the PR was merged behind
\* its base under skip-rebase.  Stated for the configurations Validate
\* accepts.
C32_MergedReasonKeepsQualifiers ==
    Validate(config) = "" =>
        \A e \in AllEntries :
            e.entry.Action = ActionMerged =>
                /\ \A a \in CheckAnswersFor(e.repo, e.entry.Number) :
                      calls[a].check.NoChecks =>
                          e.entry.Reason.checks = "no checks configured"
                /\ \A b \in BranchAnswersFor(e.repo, e.entry.Number) :
                      calls[b].branch.BehindBy > 0 =>
                          /\ e.entry.Reason.behind = calls[b].branch.BehindBy
                          /\ e.entry.Reason.msg =
                               "successfully merged (branch was %d commits behind, rebase skipped)"

\* -------------------------------------------------------------------- C34
\* GetCheckStatus has returned a CheckStatus for the commit.
CheckStatusReturned == pc = "AskedChecks" /\ ~answers.csErr

\* The flags of the returned CheckStatus that are set.
FlagsSet == { f \in { "AllPassing", "Pending", "NoChecks" } : answers.cs[f] }

\* C34: every CheckStatus returned by RealClient.GetCheckStatus is in
\* exactly one of the states allPassing, pending, noChecks or failing: at
\* most one of the flags AllPassing, Pending and NoChecks is set, for every
\* combination of check runs and commit statuses; the merger is handed that
\* very status.
C34_OneCheckState ==
    CheckStatusReturned =>
        /\ Cardinality(FlagsSet) <= 1
        /\ answers.cs \in CheckStatuses
        /\ calls[Len(calls)].check = answers.cs

\* A commit whose check runs all succeeded and one of whose status contexts
\* is pending was reported pending, and nothing else.
C34_Witness ==
    /\ CheckStatusReturned
    /\ FlagsSet = { "Pending" }
    /\ org.commit.checkRuns # << >>
    /\ checkRunsVerdict(org.commit.checkRuns) = "passing"
    /\ \E k \in DOMAIN org.commit.statuses : org.commit.statuses[k].item = "pending"

\* -------------------------------------------------------------------- C35
\* Every check run and every status context of the commit, whichever
\* response they would come in.
AllCheckRuns == { org.commit.checkRuns[k].item : k \in DOMAIN org.commit.checkRuns }

AllStatusStates == { org.commit.statuses[k].item : k \in DOMAIN org.commit.statuses }

\* C35: RealClient.GetCheckStatus reports allPassing only if at least one
\* check exists, every check run of the commit is completed with conclusion
\* "success" and every status context of the commit has state "success"; if
\* any check run or status of the commit is unsuccessful or unfinished, the
\* result is not allPassing.
C35_AllPassingMeansAllSucceeded ==
    (CheckStatusReturned /\ answers.cs.AllPassing) =>
        /\ AllCheckRuns \cup AllStatusStates # {}
        /\ \A run \in AllCheckRuns :
              run.status = "completed" /\ run.conclusion = "success"
        /\ \A state \in AllStatusStates : state = "success"

\* -------------------------------------------------------------------- C36
\* The GetBranchStatus calls of the log.
BranchCalls == { a \in CallIndices : calls[a].op = "GetBranchStatus" }

\* Every fetch the polling loop may make came back without mergeability.
MergeabilityUndetermined == org.pull.nils > PollLimit

\* C36: RealClient.GetBranchStatus fetches the pull request at most once
\* plus PollLimit (5) times and then returns; while mergeability is still
\* undetermined it returns an error, the PR is recorded as a skip with
\* reason API error and receives no mutating call; and every BranchStatus
\* it returns has UpToDate exactly when BehindBy is 0.
C36_BoundedPollingFailsClosed ==
    pc \in { "Evaluated", "Processed" } =>
        /\ answers.fetches <= 1 + PollLimit
        /\ BranchCalls # {} <=> answers.fetches >= 1
        /\ \A b \in BranchCalls :
              /\ calls[b].err = answers.bsErr
              /\ ~calls[b].err =>
                    /\ calls[b].branch = answers.bs
                    /\ calls[b].branch.UpToDate <=> calls[b].branch.BehindBy = 0
              /\ MergeabilityUndetermined =>
                    /\ calls[b].err
                    /\ \A k \in DOMAIN repoResult.PullRequests :
                          /\ repoResult.PullRequests[k].Action = ActionSkipAPIError
                          /\ repoResult.PullRequests[k].SkipReason = ReasonAPIError
                    /\ \A a \in CallIndices : ~IsMutating(calls[a])

\* With --merge and passing checks, six fetches in a row came back without
\* mergeability: GetBranchStatus was asked, gave up after the sixth, and the
\* PR was skipped.
C36_Witness ==
    /\ pc = "Processed"
    /\ config.Merge
    /\ answers.cs.AllPassing
    /\ MergeabilityUndetermined
    /\ org.pull.then = "true"
    /\ answers.fetches = 1 + PollLimit
    /\ BranchCalls # {}
    /\ Len(repoResult.PullRequests) = 1

\* -------------------------------------------------------------------- C37
\* The calls of the log made for PR pr of repo with one of the operations ops.
CallsFor(repo, pr, ops) ==
    { k \in CallIndices :
        calls[k].op \in ops /\ calls[k].repo = repo /\ calls[k].pr = pr }

\* The mutating calls of a sequence of calls, in their order.
MutatingOf(cs) == SelectSeq(cs, IsMutating)

\* What the single-phase handler, and what a scan followed by the execution
\* of its plan, make of entry e when the collaborator answers each of them
\* what the log shows it answered in this run.
BothModes(e) ==
    LET cks   == CallsFor(e.repo, e.entry.Number, { "GetCheckStatus" })
        brs   == CallsFor(e.repo, e.entry.Number, { "GetBranchStatus" })
        mts   == MutatingCallsFor(e.repo, e.entry.Number)
        c     == calls[CHOOSE k \in cks : TRUE]
        bsErr == \E k \in brs : calls[k].err
        bs    == IF brs = {} THEN NoBranchStatus ELSE calls[CHOOSE k \in brs : TRUE].branch
        mErr  == \E k \in mts : calls[k].err
        one   == processPullRequest(config, e.repo, e.entry, c.err, c.check, bsErr, bs, mErr)
        scan  == evaluatePullRequest(config, e.repo, e.entry, c.err, c.check, bsErr, bs)
        exec  == executeEntry(e.repo, scan.result, mErr)
    IN  [asked  |-> Cardinality(cks) = 1 /\ Cardinality(brs) <= 1 /\ Cardinality(mts) <= 1,
         single |-> [action |-> one.result.Action, mutating |-> MutatingOf(one.calls)],
         twice  |-> [action |-> exec.result.Action,
                     mutating |-> MutatingOf(scan.calls \o exec.calls)],
         logged |-> MutatingOf(SelectSeq(calls,
                        LAMBDA x : x.repo = e.repo /\ x.pr = e.entry.Number))]

\* C37: for the same flags and the same collaborator responses, a
\* single-phase Run and a confirm-mode Run followed by RunWithActions end
\* with the same final action for every PR and issue the same sequence of
\* mutating calls: whichever of the two the finished run was, every entry
\* carries the action both of them compute from the logged responses, the
\* PR received the mutating calls both of them make, and the mutating calls
\* of the run follow each other in listing order.
C37_ModesAgree ==
    RunOver =>
        /\ \A e \in EntriesOf(result) :
              LET m == BothModes(e)
              IN  /\ m.asked
                  /\ m.single = m.twice
                  /\ e.entry.Action = m.single.action
                  /\ m.logged = m.single.mutating
        /\ LET ms == MutatingOf(calls)
           IN  \A k, l \in DOMAIN ms :
                   k < l => \/ ms[k].repo < ms[l].repo
                            \/ ms[k].repo = ms[l].repo /\ ms[k].pr < ms[l].pr

\* A confirmed run has executed its plan: a rebase in the first repository
\* and a merge in the second, both requested after the last read.
C37_Witness ==
    /\ RunOver
    /\ config.Confirm
    /\ \E k, l, m \in CallIndices :
          /\ k < l /\ l < m
          /\ calls[k].op = "GetBranchStatus" /\ calls[k].repo = 2
          /\ calls[l].op \in { "PostRebaseComment", "UpdateBranch" } /\ calls[l].repo = 1
          /\ calls[m].op = "MergePullRequest" /\ calls[m].repo = 2

\* -------------------------------------------------------------------- C38
\* The pull requests that have received a mutating call.
MutatedPullRequests ==
    { << calls[k].repo, calls[k].pr >> : k \in { a \in CallIndices : IsMutating(calls[a]) } }

\* C38: across a whole invocation, single-phase or a scan followed by
\* RunWithActions, each pull request receives at most one mutating call: it
\* is never both rebased and merged and never merged or rebased twice,
\* whatever the flags, rebase and merge set together included.
C38_AtMostOneMutationPerPR ==
    /\ \A k, l \in CallIndices :
          (/\ IsMutating(calls[k]) /\ IsMutating(calls[l])
           /\ calls[k].repo = calls[l].repo /\ calls[k].pr = calls[l].pr) => k = l
    /\ \A e \in AllEntries :
          Cardinality(MutatingCallsFor(e.repo, e.entry.Number)) <= 1

\* With --rebase and --merge together a run has ended in which one PR of a
\* repository was rebased and the other merged, each with its one call.
C38_Witness ==
    /\ RunOver
    /\ config.Rebase /\ config.Merge
    /\ \E e, f \in EntriesOf(result) :
          /\ e.repo = f.repo
          /\ e.entry.Action = ActionRebased
          /\ f.entry.Action = ActionMerged
          /\ Cardinality(MutatingCallsFor(e.repo, e.entry.Number)) = 1
          /\ Cardinality(MutatingCallsFor(f.repo, f.entry.Number)) = 1
    /\ Cardinality(MutatedPullRequests) >= 2


====
